---- MODULE Spec2Model ----
(***************************************************************************)
(* Model of the Dataset Iteration Engine of iterator-mcp: the class        *)
(* DatasetProcessor (src/src/index.ts, lines 350-597) as one engine        *)
(* instance driven by a caller.                                            *)
(*                                                                         *)
(* The synchronous methods (getNextRecord, saveResult, resetToStart,       *)
(* jumpToRecord) are one action each.  The async methods (loadDataset,     *)
(* loadJsonDataset, exportResults) are a call step, which suspends the     *)
(* call at its await, and a settling step (Return or Throw), which runs    *)
(* the rest of the method body.  Under Spec the caller awaits every call   *)
(* before it issues the next one, as the tests do.  Under ServerSpec the   *)
(* caller is the DatasetMCPServer (src/src/index.ts, lines 13-333), whose  *)
(* request handlers call the one engine whenever a request arrives.        *)
(* Under NavigationSpec the caller awaits its calls and navigates with     *)
(* any number, whole or not.  Under EvalSpec one function of the fallback  *)
(* expression engine (lines 486-596) is called once on one input.  The     *)
(* last part of the module reads the state and the history: the claims     *)
(* about the engine, each with the predicates it is stated with.           *)
(***************************************************************************)
EXTENDS Integers, Sequences, FiniteSets, TLC

(***************************************************************************)
(* Bounds of the model.                                                    *)
(***************************************************************************)
MaxLines == 3        \* lines of a line-delimited file, elements of a query result
MaxResults == 2      \* saveResult calls between two loads
MaxCalls == 2        \* requests the server handles at a time
MaxRequests == 3     \* requests the server receives

(***************************************************************************)
(* The environment: paths, file contents, query outcomes, result texts.    *)
(***************************************************************************)
Paths == {"a.jsonl", "b.json"}
OutputPaths == {"out.json"}
Expressions == {".items"}
\* Result texts are opaque to the engine.  The caller numbers them: the k-th
\* saveResult since the last successful load passes resultText(k), so that
\* the texts of one dataset are distinct and their order is known.
resultText(k) == "result " \o ToString(k)
JumpArgs == -1..(MaxLines + 1)

\* null and undefined of JavaScript
Null == [null |-> TRUE]
Undefined == [undefined |-> TRUE]

SeqsUpTo(S, n) == UNION {[1..k -> S] : k \in 0..n}

\* Records are opaque to the engine.  The k-th record of the source at path p
\* is the object {"src": p, "id": k}, so that every record of the model names
\* its source and its position.
recordOf(p, k) == [src |-> p, id |-> k]

\* The text of the line that holds recordOf(p, k).
recordLine(p, k) ==
  "{\"src\":\"" \o p \o "\",\"id\":" \o ToString(k) \o "}"

RecordLines == {[text |-> recordLine(p, k), value |-> recordOf(p, k)] :
                   p \in Paths, k \in 1..MaxLines}

\* String.prototype.trim on the line texts of the model.
trim(line) == IF line \in {"", "  "} THEN "" ELSE line

\* JSON.parse on the line texts of the model: the parsed value, or a
\* SyntaxError for a text that is not JSON.
JSONparse(line) ==
  IF \E r \in RecordLines : r.text = line
    THEN [ok |-> TRUE, value |-> (CHOOSE r \in RecordLines : r.text = line).value]
    ELSE [ok |-> FALSE, value |-> Null]

\* The kinds of line of a line-delimited source: empty, whitespace only, not
\* JSON, a record.
LineKinds == {"empty", "blank", "invalid", "record"}

\* Number of record lines among the first n lines of a shape.
RECURSIVE recordsBefore(_, _)
recordsBefore(shape, n) ==
  IF n = 0 THEN 0
  ELSE recordsBefore(shape, n - 1) + (IF shape[n] = "record" THEN 1 ELSE 0)

lineOf(p, shape, n) ==
  CASE shape[n] = "empty" -> ""
    [] shape[n] = "blank" -> "  "
    [] shape[n] = "invalid" -> "{bad}"
    [] shape[n] = "record" -> recordLine(p, recordsBefore(shape, n))

\* Contents of the readable line-delimited file at path p.
FileContents ==
  [p \in Paths |-> {[n \in 1..Len(shape) |-> lineOf(p, shape, n)] :
                       shape \in SeqsUpTo(LineKinds, MaxLines)}]

\* Values a query over the document at path p can resolve to: arrays of
\* records, and values that are not arrays, each with what typeof gives.
ArrayValues(p) ==
  {[type |-> "object", isArray |-> TRUE,
    items |-> [k \in 1..n |-> recordOf(p, k)]] : n \in 0..MaxLines}
NonArrayValues ==
  {[type |-> t, isArray |-> FALSE, items |-> <<>>] :
      t \in {"object", "string", "number", "boolean"}}
QueryValues(p) == ArrayValues(p) \cup NonArrayValues

\* Outcomes of jq.run: a value, or a rejection whose error carries a code
\* (ENOENT: the jq executable is missing) or none (jq rejected the expression
\* or the input).
JqOutcomes ==
  [p \in Paths |->
  {[ok |-> TRUE, value |-> v, hasCode |-> FALSE, code |-> "", message |-> ""] :
      v \in QueryValues(p)}
  \cup {[ok |-> FALSE, value |-> Null, hasCode |-> TRUE, code |-> "ENOENT",
         message |-> "spawn jq ENOENT"],
        [ok |-> FALSE, value |-> Null, hasCode |-> TRUE, code |-> "EACCES",
         message |-> "spawn jq EACCES"],
        [ok |-> FALSE, value |-> Null, hasCode |-> FALSE, code |-> "",
         message |-> "jq: compile error"]}]

\* Outcomes of evaluateExpressionWithFallback: a value, or the failure of
\* readFile, of JSON.parse or of the expression evaluation.
FallbackOutcomes ==
  [p \in Paths |->
  {[ok |-> TRUE, value |-> v, hasCode |-> FALSE, code |-> "", message |-> ""] :
      v \in QueryValues(p)}
  \cup {[ok |-> FALSE, value |-> Null, hasCode |-> TRUE, code |-> "ENOENT",
         message |-> "no such file or directory"],
        [ok |-> FALSE, value |-> Null, hasCode |-> FALSE, code |-> "",
         message |-> "Unexpected token in JSON"],
        [ok |-> FALSE, value |-> Null, hasCode |-> FALSE, code |-> "",
         message |-> "Unsupported jq expression"]}]

\* The fallback is not evaluated.
NotEvaluated ==
  [ok |-> FALSE, value |-> Null, hasCode |-> FALSE, code |-> "",
   message |-> "not evaluated"]

(***************************************************************************)
(* The state.                                                              *)
(***************************************************************************)
VARIABLES
  currentDataset,     \* DatasetProcessor.currentDataset: a path or Null
  currentIndex,       \* DatasetProcessor.currentIndex: the cursor, and if the
                      \* cursor is not a whole number, the whole number below it
  currentFraction,    \* what the cursor has beyond currentIndex: 0, or 1 for
                      \* one half (the cursor is then currentIndex + 0.5)
  records,            \* DatasetProcessor.records
  processingResults,  \* DatasetProcessor.processingResults
  calls,              \* the async calls suspended at an await, in call order
  last,               \* the call issued last: op, arg, and ret once it has
                      \* returned or thrown
  prev,               \* the call before a getNextRecord that is the last call,
                      \* if a resetToStart, a jumpToRecord or a hasMoreRecords;
                      \* the exportResults before a saveResult or exportResults
                      \* that is the last call, if only saveResult was called
                      \* in between
  fetched,            \* index of the record getNextRecord returned last since
                      \* the last successful load, -1 if none
  nexts,              \* getNextRecord calls since the last successful load
                      \* (counted up to two past the end of the dataset),
                      \* -1 once resetToStart or jumpToRecord was called
  saved,              \* texts passed to saveResult since the last successful load
  loaded,             \* a load has succeeded
  requests,           \* requests the server has received (0 when the caller
                      \* is not the server)
  evaluation,         \* the call of a function of the fallback expression
                      \* engine, when the engine is run on its own
  response            \* the tool the request handled last has named and what
                      \* its handler has answered (Null when the caller is not
                      \* the server)

engine == <<currentDataset, currentIndex, currentFraction, records,
            processingResults>>
history == <<last, prev, fetched, nexts, saved, loaded>>
vars == <<currentDataset, currentIndex, currentFraction, records,
          processingResults, calls,
          last, prev, fetched, nexts, saved, loaded, requests, evaluation,
          response>>

NoCall == [op |-> "none", arg |-> Null, ret |-> Null]
NoEvaluation == [fn |-> "none"]

Init ==
  /\ currentDataset = Null
  /\ currentIndex = 0
  /\ currentFraction = 0
  /\ records = <<>>
  /\ processingResults = <<>>
  /\ calls = <<>>
  /\ last = NoCall
  /\ prev = NoCall
  /\ fetched = -1
  /\ nexts = 0
  /\ saved = <<>>
  /\ loaded = FALSE
  /\ requests = 0
  /\ evaluation = NoEvaluation
  /\ response = Null

\* The caller awaits each call: no call is issued while another is pending.
Idle == calls = <<>>

\* What an async call has for ret while it is suspended.
Pending == [pending |-> TRUE]

\* The earlier call to remember when op is called.
Before(op) ==
  IF op = "getNextRecord"
       /\ last.op \in {"resetToStart", "jumpToRecord", "hasMoreRecords"}
    THEN last
  ELSE IF op \in {"saveResult", "exportResults"} /\ last.op = "exportResults"
            /\ last.ret # Pending
    THEN last
  ELSE IF op \in {"saveResult", "exportResults"} /\ last.op = "saveResult"
            /\ prev.op = "exportResults"
    THEN prev
  ELSE NoCall

\* A synchronous call is made and returns: it becomes the last call.
Settle(op, arg, ret) ==
  /\ last' = [op |-> op, arg |-> arg, ret |-> ret]
  /\ prev' = Before(op)

\* An async call is made: it becomes the last call.
Issue(op, arg) == Settle(op, arg, Pending)

\* An async call returns or throws.
Resolve(op, arg, ret) ==
  /\ last' = [op |-> op, arg |-> arg, ret |-> ret]
  /\ prev' = IF op = "exportResults" /\ last.op = "exportResults" THEN prev ELSE NoCall

Remove(s, k) == [i \in 1..(Len(s) - 1) |-> IF i < k THEN s[i] ELSE s[i + 1]]

\* What an async call returns or throws.
Returned(value) == [ok |-> TRUE, value |-> value, message |-> "", cause |-> ""]
Thrown(message, cause) ==
  [ok |-> FALSE, value |-> Null, message |-> message, cause |-> cause]

(***************************************************************************)
(* getProcessingStatus, hasMoreRecords                                     *)
(***************************************************************************)
\* Mutant of getProcessingStatus: what remains is counted from the results.
getProcessingStatus_RemainingFromResults ==
  [dataset |-> currentDataset,
   current_record |-> currentIndex,
   total_records |-> Len(records),
   completed |-> Len(processingResults),
   remaining |-> Len(records) - Len(processingResults)]

getProcessingStatus ==
  [dataset |-> currentDataset,
   current_record |-> currentIndex,
   total_records |-> Len(records),
   completed |-> Len(processingResults),
   remaining |-> Len(records) - currentIndex]

\* getProcessingStatus is called and returns the status object.
callGetProcessingStatus ==
  /\ Settle("getProcessingStatus", Null, getProcessingStatus)
  /\ UNCHANGED <<engine, calls, fetched, nexts, saved, loaded>>

\* Mutant of hasMoreRecords: the end of the dataset counts as one more record.
hasMoreRecords_Inclusive == currentIndex <= Len(records)

hasMoreRecords == currentIndex < Len(records)

\* hasMoreRecords is called and returns.
callHasMoreRecords ==
  /\ Settle("hasMoreRecords", Null, hasMoreRecords)
  /\ UNCHANGED <<engine, calls, fetched, nexts, saved, loaded>>

(***************************************************************************)
(* resetState                                                              *)
(***************************************************************************)
\* Mutant of resetState: the results of the previous dataset are kept.
resetState_KeepsResults(filePath, newRecords) ==
  /\ records' = newRecords
  /\ currentIndex' = 0
  /\ currentFraction' = 0
  /\ currentDataset' = filePath
  /\ UNCHANGED processingResults

resetState(filePath, newRecords) ==
  /\ records' = newRecords
  /\ currentIndex' = 0
  /\ currentFraction' = 0
  /\ currentDataset' = filePath
  /\ processingResults' = <<>>

\* What resetState overwrites, as far as a later reader of the history needs
\* it: the source, and whether there were several records, a moved cursor,
\* results.
replaced ==
  [dataset |-> currentDataset,
   several |-> Len(records) > 1,
   moved |-> currentIndex > 0,
   results |-> processingResults # <<>>]

\* A successful load starts the history anew.
NewHistory ==
  /\ fetched' = -1
  /\ nexts' = 0
  /\ saved' = <<>>
  /\ loaded' = TRUE

(***************************************************************************)
(* loadDataset                                                             *)
(***************************************************************************)
\* Mutant of pushLine: a line that does not parse is not skipped, it leaves
\* an entry without a value.
pushLine_KeepsInvalid(newRecords, line) ==
  IF trim(line) # ""
    THEN Append(newRecords, JSONparse(line).value)
    ELSE newRecords

\* The body of the for-await loop for one line: a non-blank line that parses
\* is pushed, any other line is skipped.
pushLine(newRecords, line) ==
  IF trim(line) # "" /\ JSONparse(line).ok
    THEN Append(newRecords, JSONparse(line).value)
    ELSE newRecords

\* The for-await loop over the lines of the stream.
RECURSIVE readLines(_, _)
readLines(newRecords, lines) ==
  IF lines = <<>> THEN newRecords
  ELSE readLines(pushLine(newRecords, Head(lines)), Tail(lines))

\* loadDataset is called: the stream is opened and the call suspends at the
\* first line.  The suspended call holds its argument and its locals: the
\* lines the stream has delivered (source) and newRecords; before is what
\* the load replaces, known when the load returns; request is the number of
\* the request that has asked for the load (1 when the caller is not the
\* server).
loadDatasetCall(filePath) ==
  LET arg == [filePath |-> filePath, source |-> <<>>, newRecords |-> <<>>,
              before |-> Null, request |-> requests + 1]
  IN
  /\ calls' = Append(calls, [op |-> "loadDataset", arg |-> arg])
  /\ Issue("loadDataset", arg)
  /\ UNCHANGED <<engine, fetched, nexts, saved, loaded>>

\* Mutant of loadDatasetRead: the loop pushes the parsed lines to this.records
\* instead of the local newRecords.
loadDatasetRead_PushesToRecords(k, line) ==
  /\ calls[k].op = "loadDataset"
  /\ Len(calls[k].arg.source) < MaxLines
  /\ calls' = [calls EXCEPT ![k].arg.source = Append(@, line),
                            ![k].arg.newRecords = pushLine(@, line)]
  /\ records' = pushLine(records, line)
  /\ UNCHANGED <<currentDataset, currentIndex, currentFraction,
                 processingResults, history>>

\* The stream delivers one line and the loop suspends again at the next one.
loadDatasetRead(k, line) ==
  /\ calls[k].op = "loadDataset"
  /\ Len(calls[k].arg.source) < MaxLines
  /\ calls' = [calls EXCEPT ![k].arg.source = Append(@, line),
                            ![k].arg.newRecords = pushLine(@, line)]
  /\ UNCHANGED <<engine, history>>

\* Mutant of loadDatasetReturn: the count returned is the number of lines
\* read, skipped lines included.
loadDatasetReturn_CountsLines(k, lines) ==
  /\ calls[k].op = "loadDataset"
  /\ resetState(calls[k].arg.filePath, readLines(calls[k].arg.newRecords, lines))
  /\ calls' = Remove(calls, k)
  /\ Resolve("loadDataset",
             [calls[k].arg EXCEPT !.source = @ \o lines,
                                  !.newRecords = records',
                                  !.before = replaced],
             Returned(Len(calls[k].arg.source \o lines)))
  /\ NewHistory

\* The stream delivers its last lines and ends: the parsed lines replace the
\* state.
loadDatasetReturn(k, lines) ==
  /\ calls[k].op = "loadDataset"
  /\ resetState(calls[k].arg.filePath, readLines(calls[k].arg.newRecords, lines))
  /\ calls' = Remove(calls, k)
  /\ Resolve("loadDataset",
             [calls[k].arg EXCEPT !.source = @ \o lines,
                                  !.newRecords = records',
                                  !.before = replaced],
             Returned(Len(records')))
  /\ NewHistory

\* Mutant of loadDatasetThrow: this.records is emptied before the stream is
\* read, so that a failing stream leaves the engine without its records.
loadDatasetThrow_ClearsRecords(k) ==
  /\ calls[k].op = "loadDataset"
  /\ calls' = Remove(calls, k)
  /\ Resolve("loadDataset", calls[k].arg,
             Thrown("Failed to load dataset from '" \o calls[k].arg.filePath \o "'",
                    "no such file or directory"))
  /\ records' = <<>>
  /\ UNCHANGED <<currentDataset, currentIndex, currentFraction, processingResults,
                 fetched, nexts, saved, loaded>>

\* The stream fails (file not found, permissions, I/O): the catch block wraps
\* the error.
loadDatasetThrow(k) ==
  /\ calls[k].op = "loadDataset"
  /\ calls' = Remove(calls, k)
  /\ Resolve("loadDataset", calls[k].arg,
             Thrown("Failed to load dataset from '" \o calls[k].arg.filePath \o "'",
                    "no such file or directory"))
  /\ UNCHANGED <<engine, fetched, nexts, saved, loaded>>

(***************************************************************************)
(* executeJsonQuery and loadJsonDataset                                    *)
(***************************************************************************)
\* Mutant of shouldFallbackToInternalParser: any error that has a code.
shouldFallbackToInternalParser_AnyCode(error) == error.hasCode

shouldFallbackToInternalParser(error) ==
  error.hasCode /\ error.code = "ENOENT"

\* executeJsonQuery reaches the call of evaluateExpressionWithFallback.
fallbackEvaluated(jqOutcome) ==
  ~jqOutcome.ok /\ shouldFallbackToInternalParser(jqOutcome)

\* jq.run first; evaluateExpressionWithFallback if jq.run failed and the
\* failure says so; the failure of jq.run otherwise.
executeJsonQuery(jqOutcome, fallbackOutcome) ==
  IF jqOutcome.ok THEN jqOutcome
  ELSE IF shouldFallbackToInternalParser(jqOutcome) THEN fallbackOutcome
  ELSE jqOutcome

\* loadJsonDataset is called and suspends at executeJsonQuery.
loadJsonDatasetCall(filePath, jqExpression) ==
  LET arg == [filePath |-> filePath, jqExpression |-> jqExpression,
              jq |-> NotEvaluated, fallback |-> NotEvaluated,
              before |-> Null, request |-> requests + 1]
  IN
  /\ calls' = Append(calls, [op |-> "loadJsonDataset", arg |-> arg])
  /\ Issue("loadJsonDataset", arg)
  /\ UNCHANGED <<engine, fetched, nexts, saved, loaded>>

\* Mutant of loadJsonDatasetSettle: the error for a result that is not an
\* array is thrown past the catch block, without the wrapper.
loadJsonDatasetSettle_TypeErrorUnwrapped(k, jqOutcome, fallbackOutcome) ==
  LET result == executeJsonQuery(jqOutcome, fallbackOutcome)
      arg == [calls[k].arg EXCEPT !.jq = jqOutcome,
                                  !.fallback = IF fallbackEvaluated(jqOutcome)
                                                 THEN fallbackOutcome
                                                 ELSE NotEvaluated,
                                  !.before = IF result.ok /\ result.value.isArray
                                               THEN replaced ELSE Null]
  IN
  /\ calls[k].op = "loadJsonDataset"
  /\ calls' = Remove(calls, k)
  /\ IF result.ok /\ result.value.isArray
       THEN /\ resetState(calls[k].arg.filePath, result.value.items)
            /\ Resolve("loadJsonDataset", arg, Returned(Len(records')))
            /\ NewHistory
       ELSE /\ Resolve("loadJsonDataset", arg,
                       IF result.ok
                         THEN Thrown("jq expression must return an array, got: "
                                       \o result.value.type, "")
                         ELSE Thrown("Failed to load JSON dataset", result.message))
            /\ UNCHANGED <<engine, fetched, nexts, saved, loaded>>

\* The query settles: jq.run has settled with jqOutcome, and
\* evaluateExpressionWithFallback, where executeJsonQuery calls it, with
\* fallbackOutcome.  An array replaces the state, anything else is thrown
\* wrapped by the catch block.
loadJsonDatasetSettle(k, jqOutcome, fallbackOutcome) ==
  LET result == executeJsonQuery(jqOutcome, fallbackOutcome)
      arg == [calls[k].arg EXCEPT !.jq = jqOutcome,
                                  !.fallback = IF fallbackEvaluated(jqOutcome)
                                                 THEN fallbackOutcome
                                                 ELSE NotEvaluated,
                                  !.before = IF result.ok /\ result.value.isArray
                                               THEN replaced ELSE Null]
  IN
  /\ calls[k].op = "loadJsonDataset"
  /\ calls' = Remove(calls, k)
  /\ IF result.ok /\ result.value.isArray
       THEN /\ resetState(calls[k].arg.filePath, result.value.items)
            /\ Resolve("loadJsonDataset", arg, Returned(Len(records')))
            /\ NewHistory
       ELSE /\ Resolve("loadJsonDataset", arg,
                       Thrown("Failed to load JSON dataset",
                              IF result.ok
                                THEN "jq expression must return an array, got: "
                                       \o result.value.type
                                ELSE result.message))
            /\ UNCHANGED <<engine, fetched, nexts, saved, loaded>>

(***************************************************************************)
(* getNextRecord                                                           *)
(***************************************************************************)
\* Element i of a JavaScript array (0-based): undefined outside the array.
At(array, i) == IF i + 1 \in DOMAIN array THEN array[i + 1] ELSE Undefined

\* Mutant of atEnd: the index one past the last record is not the end.
atEnd_OffByOne(index, total) == index > total

\* The test of getNextRecord for the end of the dataset.
atEnd(index, total) == index >= total

\* Mutant of RecordData: the record number is the index before the increment.
RecordData_ZeroBased(record, index, total) ==
  [record_number |-> index - 1,
   total_records |-> total,
   record |-> record,
   progress |-> ToString(index) \o "/" \o ToString(total)]

\* The RecordData getNextRecord returns after it has advanced the cursor to
\* index.
RecordData(record, index, total) ==
  [record_number |-> index,
   total_records |-> total,
   record |-> record,
   progress |-> ToString(index) \o "/" \o ToString(total)]

getNextRecord ==
  /\ IF atEnd(currentIndex, Len(records))
       THEN /\ Settle("getNextRecord", Null, Null)
            /\ UNCHANGED <<engine, fetched>>
       ELSE /\ currentIndex' = currentIndex + 1
            /\ Settle("getNextRecord", Null,
                      RecordData(IF currentFraction = 0
                                   THEN At(records, currentIndex)
                                   ELSE Undefined,
                                 currentIndex', Len(records)))
            /\ fetched' = currentIndex
            /\ UNCHANGED <<currentDataset, currentFraction, records,
                           processingResults>>
  /\ nexts' = IF nexts >= 0 /\ nexts <= Len(records) + 1 THEN nexts + 1 ELSE nexts
  /\ UNCHANGED <<calls, saved, loaded>>

(***************************************************************************)
(* saveResult                                                              *)
(***************************************************************************)
\* The entry saveResult pushes: the cursor minus one and the result.  When the
\* cursor is not a whole number, record_index is the whole number below
\* cursor - 1 and record_fraction what the index has beyond it.
resultEntry(result) ==
  IF currentFraction = 0
    THEN [record_index |-> currentIndex - 1, result |-> result]
    ELSE [record_index |-> currentIndex - 1, record_fraction |-> currentFraction,
          result |-> result]

\* Mutant of saveResult: a result for a record that has one replaces it.
saveResult_Replaces(result) ==
  LET entry == [record_index |-> currentIndex - 1, result |-> result]
      same == {i \in 1..Len(processingResults) :
                 processingResults[i].record_index = entry.record_index}
  IN
  /\ Len(saved) < MaxResults
  /\ processingResults' =
       IF same = {} THEN Append(processingResults, entry)
       ELSE [i \in 1..Len(processingResults) |->
               IF i \in same THEN entry ELSE processingResults[i]]
  /\ saved' = Append(saved, result)
  /\ Settle("saveResult", result, Null)
  /\ UNCHANGED <<currentDataset, currentIndex, currentFraction, records, calls,
                 fetched, nexts, loaded>>

\* Mutant of saveResult: saving a result moves on to the next record.
saveResult_AdvancesCursor(result) ==
  /\ Len(saved) < MaxResults
  /\ processingResults' =
       Append(processingResults,
              [record_index |-> currentIndex - 1, result |-> result])
  /\ currentIndex' = IF currentIndex < Len(records) THEN currentIndex + 1
                     ELSE currentIndex
  /\ saved' = Append(saved, result)
  /\ Settle("saveResult", result, Null)
  /\ UNCHANGED <<currentDataset, currentFraction, records, calls,
                 fetched, nexts, loaded>>

saveResult(result) ==
  /\ Len(saved) < MaxResults
  /\ processingResults' = Append(processingResults, resultEntry(result))
  /\ saved' = Append(saved, result)
  /\ Settle("saveResult", result, Null)
  /\ UNCHANGED <<currentDataset, currentIndex, currentFraction, records, calls,
                 fetched, nexts, loaded>>

(***************************************************************************)
(* exportResults                                                           *)
(***************************************************************************)
\* JSON.stringify of the array of ProcessingResults, as the sequence of the
\* tokens of the text (the indentation is left out).
stringifyResult(entry) ==
  <<"{", "\"record_index\"", ":", ToString(entry.record_index), ",",
    "\"result\"", ":", "\"" \o entry.result \o "\"", "}">>

RECURSIVE stringifyResults(_)
stringifyResults(results) ==
  IF results = <<>> THEN <<>>
  ELSE IF Len(results) = 1 THEN stringifyResult(results[1])
  ELSE stringifyResult(Head(results)) \o <<",">> \o stringifyResults(Tail(results))

JSONstringify(results) == <<"[">> \o stringifyResults(results) \o <<"]">>

\* JSON.parse of the tokens of an exported file, as a reader of the file does
\* it: the array of the entries, or a failure for anything else.
IndexTokens == {[text |-> ToString(i), value |-> i] : i \in -1..MaxLines}
ResultTokens == {[text |-> "\"" \o resultText(k) \o "\"", value |-> resultText(k)] :
                    k \in 1..MaxResults}

isEntryAt(tokens, at) ==
  /\ tokens[at] = "{"
  /\ tokens[at + 1] = "\"record_index\""
  /\ tokens[at + 2] = ":"
  /\ \E t \in IndexTokens : t.text = tokens[at + 3]
  /\ tokens[at + 4] = ","
  /\ tokens[at + 5] = "\"result\""
  /\ tokens[at + 6] = ":"
  /\ \E t \in ResultTokens : t.text = tokens[at + 7]
  /\ tokens[at + 8] = "}"

entryAt(tokens, at) ==
  [record_index |-> (CHOOSE t \in IndexTokens : t.text = tokens[at + 3]).value,
   result |-> (CHOOSE t \in ResultTokens : t.text = tokens[at + 7]).value]

JSONparseResults(tokens) ==
  LET n == IF Len(tokens) <= 2 THEN 0 ELSE (Len(tokens) - 1) \div 10
      wellFormed ==
        /\ Len(tokens) >= 2
        /\ tokens[1] = "["
        /\ tokens[Len(tokens)] = "]"
        /\ Len(tokens) = (IF n = 0 THEN 2 ELSE 10 * n + 1)
        /\ \A i \in 1..n :
              /\ isEntryAt(tokens, 10 * i - 8)
              /\ (i < n => tokens[10 * i + 1] = ",")
  IN IF wellFormed
       THEN [ok |-> TRUE, value |-> [i \in 1..n |-> entryAt(tokens, 10 * i - 8)]]
       ELSE [ok |-> FALSE, value |-> <<>>]

\* exportResults is called: the argument of writeFile is evaluated and the call
\* suspends at the write.
exportResultsCall(outputPath) ==
  LET arg == [outputPath |-> outputPath,
              content |-> JSONstringify(processingResults)]
  IN
  /\ calls' = Append(calls, [op |-> "exportResults", arg |-> arg])
  /\ Issue("exportResults", arg)
  /\ UNCHANGED <<engine, fetched, nexts, saved, loaded>>

\* Mutant of exportResultsReturn: the results are cleared once they are
\* written.
exportResultsReturn_ClearsResults(k) ==
  /\ calls[k].op = "exportResults"
  /\ calls' = Remove(calls, k)
  /\ Resolve("exportResults", calls[k].arg,
             Returned([path |-> calls[k].arg.outputPath,
                       written |-> calls[k].arg.content]))
  /\ processingResults' = <<>>
  /\ UNCHANGED <<currentDataset, currentIndex, currentFraction, records, fetched,
                 nexts, saved, loaded>>

\* Mutant of exportResultsReturn: the results are serialized when the write
\* is done, not when exportResults is called.
exportResultsReturn_StringifiesLate(k) ==
  /\ calls[k].op = "exportResults"
  /\ calls' = Remove(calls, k)
  /\ Resolve("exportResults", calls[k].arg,
             Returned([path |-> calls[k].arg.outputPath,
                       written |-> JSONstringify(processingResults)]))
  /\ UNCHANGED <<engine, fetched, nexts, saved, loaded>>

\* The write succeeds: the file at outputPath holds the content.
exportResultsReturn(k) ==
  /\ calls[k].op = "exportResults"
  /\ calls' = Remove(calls, k)
  /\ Resolve("exportResults", calls[k].arg,
             Returned([path |-> calls[k].arg.outputPath,
                       written |-> calls[k].arg.content]))
  /\ UNCHANGED <<engine, fetched, nexts, saved, loaded>>

\* The write fails: the catch block wraps the error.
exportResultsThrow(k) ==
  /\ calls[k].op = "exportResults"
  /\ calls' = Remove(calls, k)
  /\ Resolve("exportResults", calls[k].arg,
             Thrown("Failed to export results: Error: ENOENT", ""))
  /\ UNCHANGED <<engine, fetched, nexts, saved, loaded>>

(***************************************************************************)
(* resetToStart, jumpToRecord                                              *)
(***************************************************************************)
\* Mutant of resetToStart: the results are cleared with the cursor.
resetToStart_ClearsResults ==
  /\ currentIndex' = 0
  /\ currentFraction' = 0
  /\ processingResults' = <<>>
  /\ Settle("resetToStart", Null, Null)
  /\ nexts' = -1
  /\ UNCHANGED <<currentDataset, records, calls, fetched, saved,
                 loaded>>

resetToStart ==
  /\ currentIndex' = 0
  /\ currentFraction' = 0
  /\ Settle("resetToStart", Null, Null)
  /\ nexts' = -1
  /\ UNCHANGED <<currentDataset, records, processingResults, calls, fetched, saved,
                 loaded>>

\* Mutant of inDataset: the upper bound is not tested.
inDataset_NoUpperBound(index, total) == index >= 0

\* Mutant of inDataset: the index one past the last record is accepted.
inDataset_Inclusive(index, total) == index >= 0 /\ index <= total

\* The test of jumpToRecord for an index of the dataset.  A number that is
\* half a unit above the whole number index passes both comparisons exactly
\* when index does: total is a whole number.
inDataset(index, total) == index >= 0 /\ index < total

\* jumpToRecord is called with the number index + fraction / 2, fraction
\* being 0 or 1.
jumpToRecord(index, fraction) ==
  /\ IF inDataset(index, Len(records))
       THEN /\ currentIndex' = index
            /\ currentFraction' = fraction
            /\ Settle("jumpToRecord", index, TRUE)
       ELSE /\ UNCHANGED <<currentIndex, currentFraction>>
            /\ Settle("jumpToRecord", index, FALSE)
  /\ nexts' = -1
  /\ UNCHANGED <<currentDataset, records, processingResults, calls, fetched, saved,
                 loaded>>

(***************************************************************************)
(* The fallback expression engine: texts and JSON values.                  *)
(***************************************************************************)
\* The text of an expression is the sequence of its characters.  The methods
\* of String take and return such sequences; positions are those of
\* JavaScript, counted from 0.
Whitespace == {" "}

startsWith(text, prefix) ==
  Len(text) >= Len(prefix) /\ SubSeq(text, 1, Len(prefix)) = prefix

endsWith(text, suffix) ==
  /\ Len(text) >= Len(suffix)
  /\ SubSeq(text, Len(text) - Len(suffix) + 1, Len(text)) = suffix

\* text.slice(begin, end) for begin >= 0; a negative end counts from the end
\* of the text.
slice(text, begin, end) ==
  LET to == IF end < 0 THEN Len(text) + end
            ELSE IF end > Len(text) THEN Len(text) ELSE end
  IN IF begin >= to THEN <<>> ELSE SubSeq(text, begin + 1, to)

RECURSIVE trimStart(_)
trimStart(text) ==
  IF text # <<>> /\ Head(text) \in Whitespace THEN trimStart(Tail(text)) ELSE text

RECURSIVE trimEnd(_)
trimEnd(text) ==
  IF text # <<>> /\ text[Len(text)] \in Whitespace
    THEN trimEnd(SubSeq(text, 1, Len(text) - 1))
    ELSE text

\* String.prototype.trim on the text of an expression.
trimChars(text) == trimEnd(trimStart(text))

\* text.split(separator) for a separator of one character: the pieces between
\* the separators, the empty ones included.
RECURSIVE split(_, _)
split(text, separator) ==
  IF \A i \in 1..Len(text) : text[i] # separator THEN <<text>>
  ELSE LET i == CHOOSE i \in 1..Len(text) :
                  /\ text[i] = separator
                  /\ \A j \in 1..(i - 1) : text[j] # separator
       IN <<SubSeq(text, 1, i - 1)>>
            \o split(SubSeq(text, i + 1, Len(text)), separator)

\* array.map(piece => piece.trim())
mapTrim(pieces) == [i \in 1..Len(pieces) |-> trimChars(pieces[i])]

\* array.filter(Boolean) and array.filter(segment => segment.length > 0) on an
\* array of texts: the texts that are not empty.
filterNonEmpty(pieces) == SelectSeq(pieces, LAMBDA piece : piece # <<>>)

\* JSON values, and the values of JavaScript a walk can meet besides them:
\* undefined, and the functions an object inherits from its prototype.
JNull == [type |-> "null"]
JUndefined == [type |-> "undefined"]
JBoolean(b) == [type |-> "boolean", boolean |-> b]
JNumber(n) == [type |-> "number", number |-> n]
NaN == [type |-> "number", nan |-> TRUE]
JString(s) == [type |-> "string", string |-> s]
JArray(items) == [type |-> "array", items |-> items]
JObject(members) == [type |-> "object", members |-> members]
JFunction(name) == [type |-> "function", name |-> name]

\* The keys every object inherits from Object.prototype, and the keys an array
\* has besides its indices (two of each stand for all).
ObjectPrototype == {<<"t", "o", "S", "t", "r", "i", "n", "g">>, <<"c", "o", "n", "s", "t", "r", "u", "c", "t", "o", "r">>}
ArrayPrototype == {<<"m", "a", "p">>, <<"f", "i", "l", "t", "e", "r">>}
lengthKey == <<"l", "e", "n", "g", "t", "h">>

\* The text of the index i of an array.
indexKey(i) == <<ToString(i)>>

\* The own keys of a value.
ownKeys(value) ==
  CASE value.type = "object" -> DOMAIN value.members
    [] value.type = "array" ->
         {indexKey(i) : i \in 0..(Len(value.items) - 1)} \cup {lengthKey}
    [] value.type = "string" ->
         {indexKey(i) : i \in 0..(Len(value.string) - 1)} \cup {lengthKey}
    [] value.type = "function" -> {lengthKey}
    [] OTHER -> {}

\* The keys a value inherits.
inheritedKeys(value) ==
  CASE value.type = "array" -> ArrayPrototype \cup ObjectPrototype
    [] value.type \in {"null", "undefined"} -> {}
    [] OTHER -> ObjectPrototype

\* key in value, for a value that is an object, an array or a function.
in(key, value) == key \in ownKeys(value) \cup inheritedKeys(value)

\* value[key] and value?.[key]: undefined for a key the value does not have,
\* and, with ?., for null and undefined.
get(value, key) ==
  IF key \notin ownKeys(value) \cup inheritedKeys(value) THEN JUndefined
  ELSE IF key \notin ownKeys(value) THEN JFunction(key)
  ELSE CASE value.type = "object" -> value.members[key]
         [] value.type = "array" ->
              IF key = lengthKey THEN JNumber(Len(value.items))
              ELSE value.items[(CHOOSE i \in 0..(Len(value.items) - 1) :
                                  indexKey(i) = key) + 1]
         [] value.type = "string" ->
              IF key = lengthKey THEN JNumber(Len(value.string))
              ELSE JString(<<value.string[(CHOOSE i \in 0..(Len(value.string) - 1) :
                                             indexKey(i) = key) + 1]>>)
         [] value.type = "function" -> JNumber(0)

\* a === b, for b a scalar: objects, arrays and functions are equal only to
\* themselves.
strictEquals(a, b) ==
  /\ a.type = b.type
  /\ CASE a.type \in {"null", "undefined"} -> TRUE
       [] a.type = "boolean" -> a.boolean = b.boolean
       [] a.type = "number" -> a = b /\ a # NaN
       [] a.type = "string" -> a.string = b.string
       [] OTHER -> FALSE

\* What a function of the engine returns or throws.
Return(value) ==
  [ok |-> TRUE, value |-> value, name |-> "", message |-> "", detail |-> <<>>]
Throw(name, message, detail) ==
  [ok |-> FALSE, value |-> JUndefined, name |-> name, message |-> message,
   detail |-> detail]


(***************************************************************************)
(* parseLiteral, evaluateSelectCondition, applyPipelineStage               *)
(***************************************************************************)
Digits == {"0", "1", "2", "3", "4", "5", "6", "7", "8", "9"}

digitValue(char) == CHOOSE d \in 0..9 : ToString(d) = char

\* The number a run of decimal digits denotes.
RECURSIVE decimal(_)
decimal(digits) ==
  IF digits = <<>> THEN 0
  ELSE 10 * decimal(SubSeq(digits, 1, Len(digits) - 1))
         + digitValue(digits[Len(digits)])

\* Number(text) on the texts of the model: whitespace around the numeral is
\* ignored, the empty text is 0, an optional sign and a run of decimal digits
\* is that integer, and every other text is NaN.  (Fractions, exponents, hex
\* numerals and Infinity are not among the texts of the model.)
Number(text) ==
  LET trimmed == trimChars(text)
      signed == trimmed # <<>> /\ Head(trimmed) \in {"+", "-"}
      digits == IF signed THEN Tail(trimmed) ELSE trimmed
  IN IF trimmed = <<>> THEN JNumber(0)
     ELSE IF digits # <<>> /\ \A i \in 1..Len(digits) : digits[i] \in Digits
       THEN JNumber(IF Head(trimmed) = "-" THEN 0 - decimal(digits)
                    ELSE decimal(digits))
     ELSE NaN

\* Mutant of parseLiteral: the backslashes of a quoted literal are dropped, as
\* if they were escapes.
parseLiteral_ProcessesEscapes(rawValue) ==
  IF rawValue = <<"t", "r", "u", "e">> THEN Return(JBoolean(TRUE))
  ELSE IF rawValue = <<"f", "a", "l", "s", "e">> THEN Return(JBoolean(FALSE))
  ELSE IF rawValue = <<"n", "u", "l", "l">> THEN Return(JNull)
  ELSE IF startsWith(rawValue, <<"\"">>) /\ endsWith(rawValue, <<"\"">>)
    THEN Return(JString(SelectSeq(slice(rawValue, 1, -1),
                                LAMBDA char : char # "\\")))
  ELSE LET maybeNumber == Number(rawValue)
       IN IF maybeNumber # NaN THEN Return(maybeNumber)
          ELSE Throw("Error", "Unsupported literal value: ", rawValue)

parseLiteral(rawValue) ==
  IF rawValue = <<"t", "r", "u", "e">> THEN Return(JBoolean(TRUE))
  ELSE IF rawValue = <<"f", "a", "l", "s", "e">> THEN Return(JBoolean(FALSE))
  ELSE IF rawValue = <<"n", "u", "l", "l">> THEN Return(JNull)
  ELSE IF startsWith(rawValue, <<"\"">>) /\ endsWith(rawValue, <<"\"">>)
    THEN Return(JString(slice(rawValue, 1, -1)))
  ELSE LET maybeNumber == Number(rawValue)
       IN IF maybeNumber # NaN THEN Return(maybeNumber)
          ELSE Throw("Error", "Unsupported literal value: ", rawValue)

\* The characters of the class [A-Za-z0-9_].
WordChars ==
  {"a", "b", "c", "d", "e", "f", "g", "h", "i", "j", "k", "l", "m", "n", "o", "p", "q", "r", "s", "t", "u", "v", "w", "x", "y", "z"}
  \cup {"A", "B", "C", "D", "E", "F", "G", "H", "I", "J", "K", "L", "M", "N", "O", "P", "Q", "R", "S", "T", "U", "V", "W", "X", "Y", "Z"}
  \cup Digits \cup {"_"}

\* Length of the longest prefix of text made of characters of class.
RECURSIVE prefixLength(_, _)
prefixLength(text, class) ==
  IF text # <<>> /\ Head(text) \in class THEN 1 + prefixLength(Tail(text), class)
  ELSE 0

\* condition.match(/^\.([A-Za-z0-9_]+)\s*==\s*(.+)$/): the field is the run of
\* word characters after the dot; the second \s* gives back its last character
\* when nothing else is left for (.+).
equalityMatch(condition) ==
  LET afterDot == IF startsWith(condition, <<".">>) THEN Tail(condition) ELSE <<>>
      n == prefixLength(afterDot, WordChars)
      afterField == trimStart(SubSeq(afterDot, n + 1, Len(afterDot)))
      afterEquals == SubSeq(afterField, 3, Len(afterField))
  IN IF /\ startsWith(condition, <<".">>)
        /\ n > 0
        /\ startsWith(afterField, <<"=", "=">>)
        /\ afterEquals # <<>>
       THEN [matched |-> TRUE,
             field |-> SubSeq(afterDot, 1, n),
             expectedRaw |-> IF trimStart(afterEquals) = <<>>
                               THEN <<afterEquals[Len(afterEquals)]>>
                               ELSE trimStart(afterEquals)]
       ELSE [matched |-> FALSE, field |-> <<>>, expectedRaw |-> <<>>]

\* Mutant of evaluateSelectCondition: the comparison is == of JavaScript, which
\* converts a string to a number before it compares the two.
evaluateSelectCondition_LooseEquality(item, condition) ==
  LET match == equalityMatch(condition)
      expectedValue == parseLiteral(trimChars(match.expectedRaw))
      actual == get(item, match.field)
  IN IF ~match.matched
       THEN Throw("Error", "Unsupported jq select condition: ", condition)
     ELSE IF ~expectedValue.ok THEN expectedValue
     ELSE Return(JBoolean(
            \/ strictEquals(actual, expectedValue.value)
            \/ /\ actual.type = "string"
               /\ expectedValue.value.type = "number"
               /\ Number(actual.string) = expectedValue.value))

evaluateSelectCondition(item, condition) ==
  LET match == equalityMatch(condition)
      expectedValue == parseLiteral(trimChars(match.expectedRaw))
  IN IF ~match.matched
       THEN Throw("Error", "Unsupported jq select condition: ", condition)
     ELSE IF ~expectedValue.ok THEN expectedValue
     ELSE Return(JBoolean(strictEquals(get(item, match.field),
                                       expectedValue.value)))

\* Mutant of applyPipelineStage: the form of the stage is checked before the
\* current value is.
applyPipelineStage_FormFirst(currentValue, stage) ==
  IF startsWith(stage, <<"m", "a", "p", "(">>) /\ endsWith(stage, <<")">>)
    THEN LET inner == trimChars(slice(stage, 4, -1))
         IN IF ~(/\ startsWith(inner, <<"s", "e", "l", "e", "c", "t", "(">>)
                 /\ endsWith(inner, <<")">>))
              THEN Throw("Error", "Unsupported jq stage: ", stage)
            ELSE IF currentValue.type # "array"
              THEN Throw("Error", "map/select stage requires an array input", <<>>)
            ELSE LET condition == trimChars(slice(inner, 7, -1))
                     items == currentValue.items
                     kept(item) == evaluateSelectCondition(item, condition)
                 IN IF \E i \in 1..Len(items) : ~kept(items[i]).ok
                      THEN kept(items[1])
                    ELSE Return(JArray(SelectSeq(items,
                           LAMBDA item : kept(item).value.boolean)))
    ELSE Throw("Error", "Unsupported jq stage: ", stage)

\* Mutant of applyPipelineStage: the elements kept come out last first.
applyPipelineStage_LastFirst(currentValue, stage) ==
  IF startsWith(stage, <<"m", "a", "p", "(">>) /\ endsWith(stage, <<")">>)
    THEN IF currentValue.type # "array"
           THEN Throw("Error", "map/select stage requires an array input", <<>>)
         ELSE LET inner == trimChars(slice(stage, 4, -1))
              IN IF ~(/\ startsWith(inner, <<"s", "e", "l", "e", "c", "t", "(">>)
                      /\ endsWith(inner, <<")">>))
                   THEN Throw("Error", "Unsupported jq stage: ", stage)
                 ELSE LET condition == trimChars(slice(inner, 7, -1))
                          items == currentValue.items
                          kept(item) == evaluateSelectCondition(item, condition)
                          filtered == SelectSeq(items,
                                        LAMBDA item : kept(item).value.boolean)
                      IN IF \E i \in 1..Len(items) : ~kept(items[i]).ok
                           THEN kept(items[1])
                         ELSE Return(JArray([i \in 1..Len(filtered) |->
                                filtered[Len(filtered) + 1 - i]]))
    ELSE Throw("Error", "Unsupported jq stage: ", stage)

applyPipelineStage(currentValue, stage) ==
  IF startsWith(stage, <<"m", "a", "p", "(">>) /\ endsWith(stage, <<")">>)
    THEN IF currentValue.type # "array"
           THEN Throw("Error", "map/select stage requires an array input", <<>>)
         ELSE LET inner == trimChars(slice(stage, 4, -1))
              IN IF ~(/\ startsWith(inner, <<"s", "e", "l", "e", "c", "t", "(">>)
                      /\ endsWith(inner, <<")">>))
                   THEN Throw("Error", "Unsupported jq stage: ", stage)
                 ELSE LET condition == trimChars(slice(inner, 7, -1))
                          items == currentValue.items
                          kept(item) == evaluateSelectCondition(item, condition)
                      IN IF \E i \in 1..Len(items) : ~kept(items[i]).ok
                           THEN kept(items[1])
                         ELSE Return(JArray(SelectSeq(items,
                                LAMBDA item : kept(item).value.boolean)))
    ELSE Throw("Error", "Unsupported jq stage: ", stage)

(***************************************************************************)
(* resolveJsonPath, applySimpleExpression                                  *)
(***************************************************************************)
\* The segment without its double quotes, if it is wrapped in them.
unquote(segment) ==
  LET segmentTrimmed == trimChars(segment)
  IN IF startsWith(segmentTrimmed, <<"\"">>) /\ endsWith(segmentTrimmed, <<"\"">>)
       THEN slice(segmentTrimmed, 1, -1)
       ELSE segmentTrimmed

\* The loop over the segments.  The in operator throws a TypeError for a
\* current value that is a boolean, a number or a string.
RECURSIVE walk(_, _)
walk(current, segments) ==
  IF segments = <<>> THEN Return(current)
  ELSE IF current.type \in {"null", "undefined"}
    THEN Throw("Error", "Path segment not found in JSON data", Head(segments))
  ELSE IF current.type \in {"boolean", "number", "string"}
    THEN Throw("TypeError", "Cannot use 'in' operator to search for a key",
               Head(segments))
  ELSE IF ~in(Head(segments), current)
    THEN Throw("Error", "Path segment not found in JSON data", Head(segments))
  ELSE walk(get(current, Head(segments)), Tail(segments))

resolveJsonPath(jsonData, pathExpression) ==
  LET trimmed == trimChars(pathExpression)
      rawSegments == filterNonEmpty(split(slice(trimmed, 1, Len(trimmed)), "."))
      segments == [i \in 1..Len(rawSegments) |-> unquote(rawSegments[i])]
  IN IF trimmed = <<".">> THEN Return(jsonData)
     ELSE walk(jsonData, segments)

\* Mutant of applyPipeline: every stage is applied to the value of the path,
\* not to the result of the stage before it.
RECURSIVE applyPipeline_StagesOnPathValue(_, _, _)
applyPipeline_StagesOnPathValue(result, pipeline, steps) ==
  IF pipeline = <<>> \/ ~result.ok THEN [outcome |-> result, steps |-> steps]
  ELSE LET pathValue == IF Len(steps) = 1 THEN result.value ELSE steps[2].input
       IN applyPipeline_StagesOnPathValue(
            applyPipelineStage(pathValue, Head(pipeline)),
            Tail(pipeline),
            Append(steps, [fn |-> "applyPipelineStage",
                           input |-> pathValue,
                           text |-> Head(pipeline)]))

\* The loop over the stages.  steps lists the calls made so far.
RECURSIVE applyPipeline(_, _, _)
applyPipeline(result, pipeline, steps) ==
  IF pipeline = <<>> \/ ~result.ok THEN [outcome |-> result, steps |-> steps]
  ELSE applyPipeline(applyPipelineStage(result.value, Head(pipeline)),
                     Tail(pipeline),
                     Append(steps, [fn |-> "applyPipelineStage",
                                    input |-> result.value,
                                    text |-> Head(pipeline)]))

\* Mutant of applySimpleExpression: the first piece is not required to start
\* with a dot.
applySimpleExpression_AnyFirstPiece(jsonData, jqExpression) ==
  LET stages == filterNonEmpty(mapTrim(split(jqExpression, "|")))
      pathExpression == Head(stages)
      pipeline == Tail(stages)
  IN IF Len(stages) = 0
       THEN [outcome |-> Throw("Error", "Unsupported jq expression: ", jqExpression),
             steps |-> <<>>]
     ELSE applyPipeline(resolveJsonPath(jsonData, pathExpression), pipeline,
                        <<[fn |-> "resolveJsonPath", input |-> jsonData,
                           text |-> pathExpression]>>)

\* applySimpleExpression: what it returns or throws, with the calls of
\* resolveJsonPath and applyPipelineStage it has made, in order.
applySimpleExpression(jsonData, jqExpression) ==
  LET stages == filterNonEmpty(mapTrim(split(jqExpression, "|")))
      pathExpression == Head(stages)
      pipeline == Tail(stages)
  IN IF Len(stages) = 0
       THEN [outcome |-> Throw("Error", "Unsupported jq expression: ", jqExpression),
             steps |-> <<>>]
     ELSE IF ~startsWith(pathExpression, <<".">>)
       THEN [outcome |-> Throw("Error", "Unsupported jq expression: ", jqExpression),
             steps |-> <<>>]
     ELSE applyPipeline(resolveJsonPath(jsonData, pathExpression), pipeline,
                        <<[fn |-> "resolveJsonPath", input |-> jsonData,
                           text |-> pathExpression]>>)


(***************************************************************************)
(* The inputs of the expression engine.                                    *)
(***************************************************************************)
\* array.join(separator)
RECURSIVE join(_, _)
join(pieces, separator) ==
  IF pieces = <<>> THEN <<>>
  ELSE IF Len(pieces) = 1 THEN pieces[1]
  ELSE pieces[1] \o separator \o join(Tail(pieces), separator)

\* {"users":[{"id":1,"active":true},{"id":2,"active":false}]}
usersDocument ==
  JObject((<<"u", "s", "e", "r", "s">> :> JArray(<<JObject((<<"i", "d">> :> JNumber(1)) @@ (<<"a", "c", "t", "i", "v", "e">> :> JBoolean(TRUE))), JObject((<<"i", "d">> :> JNumber(2)) @@ (<<"a", "c", "t", "i", "v", "e">> :> JBoolean(FALSE)))>>)))

\* The elements of the arrays a stage filters: objects with and without the
\* fields f and g, with values of every scalar type, and elements that are not
\* objects.
Elements ==
  {JObject((<<"f">> :> JNumber(1))),
   JObject((<<"f">> :> JString(<<"1">>))),
   JObject((<<"g">> :> JNumber(1))),
   JObject((<<"f">> :> JBoolean(TRUE))),
   JObject((<<"f">> :> JNull)),
   JNull,
   JString(<<"a", "b">>),
   JArray(<<JNumber(1), JNumber(2)>>)}

\* {"a":{"c.d":7,"c d":8,"c":{"d":9},"s":"xy","n":null},
\*  "orders":{"2024":{"Q1":[{"f":1},{"f":"1"}]}},
\*  "list":[{"f":1},{"g":1},{"f":"1"},{"f":1,"g":2}]}
nestedDocument ==
  JObject((<<"a">> :> JObject((<<"c", ".", "d">> :> JNumber(7)) @@ (<<"c", " ", "d">> :> JNumber(8)) @@ (<<"c">> :> JObject((<<"d">> :> JNumber(9)))) @@ (<<"s">> :> JString(<<"x", "y">>)) @@ (<<"n">> :> JNull))) @@ (<<"o", "r", "d", "e", "r", "s">> :> JObject((<<"2", "0", "2", "4">> :> JObject((<<"Q", "1">> :> JArray(<<JObject((<<"f">> :> JNumber(1))), JObject((<<"f">> :> JString(<<"1">>)))>>)))))) @@ (<<"l", "i", "s", "t">> :> JArray(<<JObject((<<"f">> :> JNumber(1))), JObject((<<"g">> :> JNumber(1))), JObject((<<"f">> :> JString(<<"1">>))), JObject((<<"f">> :> JNumber(1)) @@ (<<"g">> :> JNumber(2)))>>)))

Documents == {usersDocument, nestedDocument, JNumber(5), JNull}

\* The keys the paths of the model name: keys of nestedDocument, with a dot,
\* with a space and plain, a key every object inherits, and a key that is
\* nowhere.
Keys ==
  {<<"a">>, <<"c", ".", "d">>, <<"c", " ", "d">>, <<"c">>, <<"d">>, <<"s">>, <<"n">>, <<"t", "o", "S", "t", "r", "i", "n", "g">>, <<"x">>}

\* A segment of a path names a key, in double quotes or not.
Segments == [key : Keys, quoted : BOOLEAN]

segmentText(segment) ==
  IF segment.quoted THEN <<"\"">> \o segment.key \o <<"\"">> ELSE segment.key

\* The path expression that names the segments: ".", or the texts of the
\* segments, each with a dot before it.
pathOf(segments) ==
  IF segments = <<>> THEN <<".">>
  ELSE <<".">> \o join([i \in 1..Len(segments) |-> segmentText(segments[i])], <<".">>)

MaxSegments == 3

\* .orders."2024".Q1
ordersPath ==
  <<[key |-> <<"o", "r", "d", "e", "r", "s">>, quoted |-> FALSE],
    [key |-> <<"2", "0", "2", "4">>, quoted |-> TRUE],
    [key |-> <<"Q", "1">>, quoted |-> FALSE]>>

\* The documents and paths resolveJsonPath is called with.
PathInputs ==
  ({nestedDocument} \X SeqsUpTo(Segments, MaxSegments))
  \cup (Documents \X SeqsUpTo(Segments, 1))
  \cup {<<nestedDocument, ordersPath>>}

\* The conditions of the model that have the form .<field> == <literal>: a
\* field, a literal with the value its text denotes, and the whitespace
\* before and after the ==.
Fields == {<<"f">>, <<"l", "e", "n", "g", "t", "h">>}

Literals ==
  {[text |-> <<"1">>, value |-> JNumber(1)],
   [text |-> <<"2">>, value |-> JNumber(2)],
   [text |-> <<"\"", "1", "\"">>, value |-> JString(<<"1">>)],
   [text |-> <<"t", "r", "u", "e">>, value |-> JBoolean(TRUE)],
   [text |-> <<"n", "u", "l", "l">>, value |-> JNull]}

Spacings == {<<<<>>, <<>>>>, <<<<" ">>, <<" ">>>>, <<<<" ">>, <<" ", " ">>>>}

EqualityConditions == [field : Fields, literal : Literals, spacing : Spacings]

conditionText(c) ==
  <<".">> \o c.field \o c.spacing[1] \o <<"=", "=">> \o c.spacing[2]
    \o c.literal.text

selectStage(condition) == <<"m", "a", "p", "(", "s", "e", "l", "e", "c", "t", "(">> \o condition \o <<")", ")">>

\* The texts of the stages of the model: map(select(...)) of the conditions
\* above and of texts that are no such condition, and texts that are no
\* map(select(...)).
StageTexts ==
  {selectStage(conditionText(c)) : c \in EqualityConditions}
  \cup {selectStage(condition) :
          condition \in {<<".", "f", " ", "=", "=", " ", "o", "n", "e">>,
                         <<".", "f", " ", "=", " ", "1">>,
                         <<"f", " ", "=", "=", " ", "1">>,
                         <<".", "f", "-", "g", " ", "=", "=", " ", "1">>}}
  \cup {<<"m", "a", "p", "(", " ", "s", "e", "l", "e", "c", "t", "(", " ", ".", "f", " ", "=", "=", " ", "1", " ", ")", " ", ")">>,
        <<"m", "a", "p", "(", ".", "f", ")">>,
        <<"m", "a", "p", "(", ")">>,
        <<"s", "e", "l", "e", "c", "t", "(", ".", "f", " ", "=", "=", " ", "1", ")">>,
        <<"m", "a", "p", "(", "s", "e", "l", "e", "c", "t", "(", ".", "f", " ", "=", "=", " ", "1", ")">>,
        <<"f", "o", "o">>,
        <<".", "f">>,
        <<"m", "a", "p", "(", "s", "e", "l", "e", "c", "t", "(", ".", "f", " ", "=", "=", " ", "1", ")", ")", "x">>}

MaxElements == 3

\* The stages of the model that are map(select(...)) of a condition of the
\* form, written with one space around the ==.
SelectStages ==
  {selectStage(conditionText(c)) :
     c \in {c \in EqualityConditions : c.spacing = <<<<" ">>, <<" ">>>>}}

\* The values a stage is applied to: arrays of elements, and values that are
\* not arrays.
StageInputs ==
  {JArray(items) : items \in SeqsUpTo(Elements, MaxElements)}
  \cup {usersDocument, JNull, JNumber(5), JString(<<"a", "b">>)}

\* The texts parseLiteral is called with: a match of (.+) at the end of a
\* trimmed condition, trimmed, is neither empty nor begins or ends with
\* whitespace.
LiteralChars == {"\"", "1", "0", "a", "-", " ", "\\"}
MaxLiteral == 3

LiteralTexts ==
  {text \in SeqsUpTo(LiteralChars, MaxLiteral) \cup
     {<<"t", "r", "u", "e">>,
      <<"f", "a", "l", "s", "e">>,
      <<"n", "u", "l", "l">>,
      <<"T", "r", "u", "e">>,
      <<"n", "u", "l">>,
      <<"\"", "t", "r", "u", "e", "\"">>,
      <<"\"", "a", " ", "b", "\"">>,
      <<"\"", "a", "\\", "\"", "b", "\"">>,
      <<"-", "1", "2">>,
      <<"1", "2", "a">>,
      <<"\"", "1", "\"", "0">>} :
     text # <<>> /\ trimChars(text) = text}

\* The pieces an expression of the model is made of, joined by "|": paths,
\* stages, and texts that are neither, with and without whitespace around
\* them.
Pieces ==
  {<<>>,
   <<" ">>,
   <<".">>,
   <<".", "u", "s", "e", "r", "s", " ">>,
   <<".", "l", "i", "s", "t">>,
   <<"l", "i", "s", "t">>,
   <<" ", "m", "a", "p", "(", "s", "e", "l", "e", "c", "t", "(", ".", "f", " ", "=", "=", " ", "1", ")", ")", " ">>,
   <<"m", "a", "p", "(", "s", "e", "l", "e", "c", "t", "(", ".", "g", " ", "=", "=", " ", "2", ")", ")">>,
   <<" ", "m", "a", "p", "(", "s", "e", "l", "e", "c", "t", "(", ".", "a", "c", "t", "i", "v", "e", " ", "=", "=", " ", "t", "r", "u", "e", ")", ")">>,
   <<"f", "o", "o">>}
MaxPieces == 3

PieceSeqs == SeqsUpTo(Pieces, MaxPieces) \ {<<>>}

(***************************************************************************)
(* The engine under a caller that awaits every call.                       *)
(***************************************************************************)
\* The suspended calls of a method.
Suspended(op) == {k \in 1..Len(calls) : calls[k].op = op}

\* A call by a caller that awaits: no other call is suspended.  Nothing runs
\* between two lines of a stream, so its lines are delivered in one step.
Awaited(Call) == Idle /\ Call /\ UNCHANGED <<requests, evaluation, response>>

\* A suspended call goes on.
Resumed(Step) == Step /\ UNCHANGED <<requests, evaluation, response>>

Next ==
  \/ \E p \in Paths : Awaited(loadDatasetCall(p))
  \/ \E k \in Suspended("loadDataset") :
        \E lines \in FileContents[calls[k].arg.filePath] :
          Resumed(loadDatasetReturn(k, lines))
  \/ \E k \in Suspended("loadDataset") : Resumed(loadDatasetThrow(k))
  \/ \E p \in Paths : \E e \in Expressions : Awaited(loadJsonDatasetCall(p, e))
  \/ \E k \in Suspended("loadJsonDataset") :
        \E jqOutcome \in JqOutcomes[calls[k].arg.filePath] :
          \E fallbackOutcome \in FallbackOutcomes[calls[k].arg.filePath] :
            Resumed(loadJsonDatasetSettle(k, jqOutcome, fallbackOutcome))
  \/ Awaited(callGetProcessingStatus)
  \/ Awaited(callHasMoreRecords)
  \/ Awaited(getNextRecord)
  \/ Awaited(saveResult(resultText(Len(saved) + 1)))
  \/ \E o \in OutputPaths : Awaited(exportResultsCall(o))
  \/ \E k \in Suspended("exportResults") : Resumed(exportResultsReturn(k))
  \/ \E k \in Suspended("exportResults") : Resumed(exportResultsThrow(k))
  \/ Awaited(resetToStart)
  \/ \E i \in JumpArgs : Awaited(jumpToRecord(i, 0))

Spec == Init /\ [][Next]_vars

(***************************************************************************)
(* The engine under the DatasetMCPServer.  The handler of a tools/call or  *)
(* resources/read request calls the method of its tool on the one          *)
(* DatasetProcessor of the server.  A request is handled when it arrives,  *)
(* also while the handlers of earlier requests are suspended in            *)
(* loadDataset, loadJsonDataset or exportResults: the server has no queue  *)
(* and no lock.  The stream of a load delivers its lines one at a time.    *)
(* The handler answers with the text of its tool, or with the McpError its *)
(* catch block throws; a resources/read request reads the status as the    *)
(* get_status tool does and is not told apart from it.                     *)
(***************************************************************************)
\* The tools the server defines, by the method of the engine each calls.
toolName ==
  [loadDataset |-> "load_dataset", loadJsonDataset |-> "load_json_dataset",
   getNextRecord |-> "get_next_record", saveResult |-> "save_result",
   exportResults |-> "export_results", getProcessingStatus |-> "get_status",
   resetToStart |-> "reset_to_start", jumpToRecord |-> "jump_to_record"]
Tools == {toolName[op] : op \in DOMAIN toolName}

\* Names of tools the server does not define.
UnknownTools == {"delete_record"}

ErrorCode == [MethodNotFound |-> "MethodNotFound", InternalError |-> "InternalError"]
McpError(code, message) == [code |-> code, message |-> message]

\* The methods of the engine that are async.
AsyncOps == {"loadDataset", "loadJsonDataset", "exportResults"}

\* The call issued last has thrown.
lastThrown == last.op \in AsyncOps /\ ~last.ret.ok

\* What the case of the tool returns once the method it has called has
\* returned: the text, as its template and the values it interpolates.
CallToolResult ==
  LET status == getProcessingStatus
      Text(text, values) == [type |-> "text", text |-> text, values |-> values]
  IN
  CASE last.op = "loadDataset" ->
         Text("Successfully loaded dataset with ${count} records from ${file_path}",
              [count |-> last.ret.value, file_path |-> last.arg.filePath])
    [] last.op = "loadJsonDataset" ->
         Text("Successfully loaded JSON dataset with ${count} records from ${file_path} using jq expression: ${jq_expression}",
              [count |-> last.ret.value, file_path |-> last.arg.filePath,
               jq_expression |-> last.arg.jqExpression])
    [] last.op = "getNextRecord" ->
         IF last.ret = Null
           THEN Text("No more records to process. Dataset iteration complete!", Null)
           ELSE Text("Record ${recordData.progress}:\n\n${JSON.stringify(recordData.record, null, 2)}",
                     [progress |-> last.ret.progress, record |-> last.ret.record])
    [] last.op = "saveResult" ->
         Text("Result saved for record ${status.current_record}. Processing progress: ${status.completed}/${status.total_records}",
              [current_record |-> status.current_record,
               completed |-> status.completed,
               total_records |-> status.total_records])
    [] last.op = "exportResults" ->
         Text("Successfully exported ${this.processor.getProcessingStatus().completed} results to ${output_path}",
              [completed |-> status.completed,
               output_path |-> last.arg.outputPath])
    [] last.op = "getProcessingStatus" ->
         Text("Dataset Status:\n${JSON.stringify(status, null, 2)}", last.ret)
    [] last.op = "resetToStart" ->
         Text("Dataset iterator reset to the beginning", Null)
    [] last.op = "jumpToRecord" ->
         IF last.ret
           THEN Text("Successfully jumped to record ${record_number}",
                     [record_number |-> last.arg])
           ELSE Text("Invalid record number ${record_number}. Dataset has ${this.processor.getProcessingStatus().total_records} records.",
                     [record_number |-> last.arg,
                      total_records |-> status.total_records])

\* The catch block of the handler: whatever the try block has thrown is
\* thrown again as an McpError with the InternalError code.
catchError(error) ==
  McpError(ErrorCode.InternalError,
           [text |-> "Tool execution failed: ${error}", error |-> error])

\* What the handler of the call issued last answers, and the tool it was
\* asked for: nothing yet while the call is suspended.
CallToolResponse ==
  [name |-> toolName[last.op],
   result |-> IF last.op \in AsyncOps /\ last.ret = Pending THEN Pending
              ELSE IF lastThrown THEN catchError(last.ret)
              ELSE CallToolResult]
\* The server starts with a fresh engine, or with an engine in use: a.jsonl
\* loaded, two of its three records fetched, one result saved.
ServerInit ==
  \/ Init
  \/ /\ currentDataset = "a.jsonl"
     /\ currentIndex = 2
     /\ currentFraction = 0
     /\ records = [k \in 1..3 |-> recordOf("a.jsonl", k)]
     /\ processingResults = <<[record_index |-> 1, result |-> resultText(1)]>>
     /\ calls = <<>>
     /\ last = [op |-> "saveResult", arg |-> resultText(1), ret |-> Null]
     /\ prev = NoCall
     /\ fetched = 1
     /\ nexts = 2
     /\ saved = <<resultText(1)>>
     /\ loaded = TRUE
     /\ requests = 0
     /\ evaluation = NoEvaluation
     /\ response = CallToolResponse

\* The server can suspend one more handler.
Accepting == Len(calls) < MaxCalls

\* A request arrives and its handler calls the engine: the handler answers,
\* or suspends with the call.
Request(Call) ==
  /\ requests < MaxRequests
  /\ Call
  /\ requests' = requests + 1
  /\ response' = CallToolResponse'
  /\ UNCHANGED evaluation

\* A suspended call returns or throws, and its handler answers.
Answered(Step) ==
  /\ Step
  /\ response' = CallToolResponse'
  /\ UNCHANGED <<requests, evaluation>>

\* A request names a tool the server does not define: the default case of
\* the switch throws inside the try block, and the catch block catches it.
callUnknownTool(name) ==
  /\ requests < MaxRequests
  /\ requests' = requests + 1
  /\ response' =
       [name |-> name,
        result |-> catchError(McpError(ErrorCode.MethodNotFound,
                                       [text |-> "Unknown tool: ${name}",
                                        name |-> name]))]
  /\ UNCHANGED <<engine, calls, history, evaluation>>

\* The lines the stream of the suspended loadDataset k can deliver next: a
\* line that is skipped, or the next record.
NextLines(k) ==
  {"{bad}",
   recordLine(calls[k].arg.filePath, Len(calls[k].arg.newRecords) + 1)}

ServerNext ==
  \/ \E p \in Paths : Accepting /\ Request(loadDatasetCall(p))
  \/ \E k \in Suspended("loadDataset") :
        \E line \in NextLines(k) : Resumed(loadDatasetRead(k, line))
  \/ \E k \in Suspended("loadDataset") : Answered(loadDatasetReturn(k, <<>>))
  \/ \E k \in Suspended("loadDataset") : Answered(loadDatasetThrow(k))
  \/ \E p \in Paths : \E e \in Expressions :
        Accepting /\ Request(loadJsonDatasetCall(p, e))
  \/ \E k \in Suspended("loadJsonDataset") :
        \E jqOutcome \in JqOutcomes[calls[k].arg.filePath] :
          \E fallbackOutcome \in FallbackOutcomes[calls[k].arg.filePath] :
            Answered(loadJsonDatasetSettle(k, jqOutcome, fallbackOutcome))
  \/ Request(callGetProcessingStatus)
  \/ Request(getNextRecord)
  \/ Request(saveResult(resultText(Len(saved) + 1)))
  \/ \E o \in OutputPaths : Accepting /\ Request(exportResultsCall(o))
  \/ \E k \in Suspended("exportResults") : Answered(exportResultsReturn(k))
  \/ \E k \in Suspended("exportResults") : Answered(exportResultsThrow(k))
  \/ Request(resetToStart)
  \/ \E i \in JumpArgs : Request(jumpToRecord(i, 0))
  \/ \E name \in UnknownTools : callUnknownTool(name)

ServerSpec == ServerInit /\ [][ServerNext]_vars

(***************************************************************************)
(* The engine under a caller that navigates with any number.  The index of *)
(* jumpToRecord is a number of TypeScript, and the schema of the           *)
(* jump_to_record tool gives record_number the type "number": the index    *)
(* may be half way between two whole numbers.  The caller awaits its calls *)
(* and calls only loadDataset, the navigation methods and saveResult.      *)
(***************************************************************************)
\* What a number can have beyond the whole number below it: nothing, or one
\* half.
Fractions == {0, 1}

NavigationNext ==
  \/ \E p \in Paths : Awaited(loadDatasetCall(p))
  \/ \E k \in Suspended("loadDataset") :
        \E lines \in FileContents[calls[k].arg.filePath] :
          Resumed(loadDatasetReturn(k, lines))
  \/ Awaited(getNextRecord)
  \/ Awaited(callHasMoreRecords)
  \/ Awaited(saveResult(resultText(Len(saved) + 1)))
  \/ Awaited(resetToStart)
  \/ \E i \in JumpArgs : \E fraction \in Fractions :
        Awaited(jumpToRecord(i, fraction))

NavigationSpec == Init /\ [][NavigationNext]_vars

(***************************************************************************)
(* The expression engine on its own: one call of one of its functions,     *)
(* with its arguments and what it returns or throws.                       *)
(***************************************************************************)
callParseLiteral(rawValue) ==
  /\ evaluation' = [fn |-> "parseLiteral", rawValue |-> rawValue,
                    ret |-> parseLiteral(rawValue)]
  /\ UNCHANGED <<engine, calls, history, requests, response>>

callResolveJsonPath(jsonData, segments) ==
  /\ evaluation' = [fn |-> "resolveJsonPath", jsonData |-> jsonData,
                    segments |-> segments,
                    pathExpression |-> pathOf(segments),
                    ret |-> resolveJsonPath(jsonData, pathOf(segments))]
  /\ UNCHANGED <<engine, calls, history, requests, response>>

callApplyPipelineStage(currentValue, stage) ==
  /\ evaluation' = [fn |-> "applyPipelineStage", currentValue |-> currentValue,
                    stage |-> stage,
                    ret |-> applyPipelineStage(currentValue, stage)]
  /\ UNCHANGED <<engine, calls, history, requests, response>>

callApplySimpleExpression(jsonData, pieces) ==
  LET jqExpression == join(pieces, <<"|">>)
      result == applySimpleExpression(jsonData, jqExpression)
  IN
  /\ evaluation' = [fn |-> "applySimpleExpression", jsonData |-> jsonData,
                    pieces |-> pieces, jqExpression |-> jqExpression,
                    ret |-> result.outcome, steps |-> result.steps]
  /\ UNCHANGED <<engine, calls, history, requests, response>>

\* The loop over the stages, on a value resolveJsonPath has returned.
callApplyPipeline(currentValue, pipeline) ==
  LET result == applyPipeline(Return(currentValue), pipeline, <<>>)
  IN
  /\ evaluation' = [fn |-> "applyPipeline", currentValue |-> currentValue,
                    pipeline |-> pipeline,
                    ret |-> result.outcome, steps |-> result.steps]
  /\ UNCHANGED <<engine, calls, history, requests, response>>

\* No function of the engine has been called yet.
Unevaluated == evaluation = NoEvaluation

EvalNext ==
  \/ Unevaluated /\ \E rawValue \in LiteralTexts : callParseLiteral(rawValue)
  \/ Unevaluated /\ \E input \in PathInputs :
        callResolveJsonPath(input[1], input[2])
  \/ Unevaluated /\ \E currentValue \in StageInputs : \E stage \in StageTexts :
        callApplyPipelineStage(currentValue, stage)
  \/ Unevaluated /\ \E jsonData \in Documents : \E pieces \in PieceSeqs :
        callApplySimpleExpression(jsonData, pieces)
  \/ Unevaluated /\ \E items \in SeqsUpTo(Elements, MaxElements) :
        \E S \in SelectStages : \E T \in SelectStages :
          callApplyPipeline(JArray(items), <<S, T>>)

EvalSpec == Init /\ [][EvalNext]_vars

(***************************************************************************)
(* Reading the history.                                                    *)
(***************************************************************************)
LoadOps == {"loadDataset", "loadJsonDataset"}

\* The last call is an async call of op that has returned / has thrown.
HasReturned(op) == last.op = op /\ last.ret # Pending /\ last.ret.ok
HasThrown(op) == last.op = op /\ last.ret # Pending /\ ~last.ret.ok

LoadReturned == \E op \in LoadOps : HasReturned(op)
LoadThrown == \E op \in LoadOps : HasThrown(op)

\* The step is a call of the synchronous method op.
IsCallOf(op) == calls' = calls /\ last'.op = op

\* The step is a step of a load other than its return: its call, or its throw.
IsUnfinishedLoadStep ==
  /\ calls' # calls
  /\ last'.op \in LoadOps
  /\ (last'.ret = Pending \/ ~last'.ret.ok)

\* The sequence a successful load has read from its source, in source order:
\* the values of the lines that are not blank and are JSON, or the elements
\* of the array the query resolved to.
IsRecordLine(line) == line \notin {"", "  "} /\ \E r \in RecordLines : r.text = line

ValueOfLine(line) == (CHOOSE r \in RecordLines : r.text = line).value

LoadedSequence ==
  IF last.op = "loadDataset"
    THEN LET kept == SelectSeq(last.arg.source, IsRecordLine)
         IN [i \in 1..Len(kept) |-> ValueOfLine(kept[i])]
    ELSE IF last.arg.jq.ok THEN last.arg.jq.value.items
         ELSE last.arg.fallback.value.items

(***************************************************************************)
(* C1.  In every reachable state the cursor is between 0 and the number of *)
(* loaded records: 0 <= currentIndex <= records.length.                    *)
(***************************************************************************)
C1_CursorInRange == 0 <= currentIndex /\ currentIndex <= Len(records)

\* The cursor is at the end of a full dataset and a jump past the end has
\* just been refused.
C1_Witness ==
  /\ Len(records) = MaxLines
  /\ currentIndex = Len(records)
  /\ last.op = "jumpToRecord"
  /\ last.arg > Len(records)
  /\ last.ret = FALSE

(***************************************************************************)
(* C2.  A load that fails changes nothing: from its call to its throw,     *)
(* records, cursor, ProcessingResults and source identifier stay what they *)
(* were before the call.                                                   *)
(***************************************************************************)
C2_FailedLoadChangesNothing ==
  [][IsUnfinishedLoadStep => UNCHANGED engine]_vars

\* A load has just failed on an engine that holds a dataset, a moved cursor
\* and results.
C2_Witness ==
  /\ LoadThrown
  /\ Len(records) > 1
  /\ currentIndex > 0
  /\ processingResults # <<>>
  /\ currentDataset # last.arg.filePath

(***************************************************************************)
(* C3.  After every successful load, whatever the state before it, the     *)
(* records are the sequence just read in source order, the cursor is 0,    *)
(* there are no ProcessingResults (status.completed = 0) and the source    *)
(* identifier is the path just loaded.                                     *)
(***************************************************************************)
C3_LoadReplacesState ==
  LoadReturned =>
    /\ records = LoadedSequence
    /\ currentIndex = 0
    /\ processingResults = <<>>
    /\ getProcessingStatus.completed = 0
    /\ currentDataset = last.arg.filePath
    /\ last.ret.value = Len(LoadedSequence)

\* A load has just replaced another dataset, whose cursor had moved and which
\* had results, by a dataset of its own.
C3_Witness ==
  /\ LoadReturned
  /\ Len(records) > 1
  /\ last.arg.before.several
  /\ last.arg.before.dataset # currentDataset
  /\ last.arg.before.moved
  /\ last.arg.before.results

(***************************************************************************)
(* C4.  After a successful load, as long as neither resetToStart nor       *)
(* jumpToRecord is called and no other load succeeds, the n-th             *)
(* getNextRecord (n <= total) returns the record at index n-1 with         *)
(* record_number n, total_records total and progress "n/total", and the    *)
(* cursor is n after it.                                                   *)
(***************************************************************************)
C4_NthNextReturnsNth ==
  (nexts >= 0 /\ nexts <= Len(records)) =>
    /\ currentIndex = nexts
    /\ (nexts >= 1 /\ last.op = "getNextRecord") =>
          /\ last.ret # Null
          /\ last.ret.record_number = nexts
          /\ last.ret.total_records = Len(records)
          /\ last.ret.record = records[nexts]
          /\ last.ret.record = recordOf(currentDataset, nexts)
          /\ last.ret.progress = ToString(nexts) \o "/" \o ToString(Len(records))

\* The last record of a full dataset has just been returned by the last of
\* as many calls.
C4_Witness ==
  /\ nexts = MaxLines
  /\ Len(records) = MaxLines
  /\ last.op = "getNextRecord"

(***************************************************************************)
(* C5.  With the cursor at the record count, getNextRecord returns null    *)
(* and changes nothing, so that hasMoreRecords is false before and after   *)
(* it and every further call does the same; this includes the empty        *)
(* dataset and the engine before any load.                                 *)
(***************************************************************************)
C5_ExhaustedStaysExhausted ==
  [][(currentIndex = Len(records) /\ IsCallOf("getNextRecord")) =>
        /\ last'.ret = Null
        /\ UNCHANGED engine
        /\ ~hasMoreRecords
        /\ ~hasMoreRecords']_vars

\* getNextRecord has returned null for the second time in a row after the
\* records of a dataset were all returned.
C5_Witness ==
  /\ nexts = Len(records) + 2
  /\ Len(records) > 0
  /\ last.op = "getNextRecord"
  /\ last.ret = Null
  /\ currentIndex = Len(records)

(***************************************************************************)
(* C6.  jumpToRecord(i) returns true exactly when 0 <= i < total; when it  *)
(* returns true the cursor is i and a getNextRecord that follows at once   *)
(* returns the record at index i with record_number i+1; when it returns   *)
(* false the cursor is unchanged.                                          *)
(***************************************************************************)
C6_JumpToRecord ==
  /\ [](last.op = "jumpToRecord" =>
          /\ last.ret = (0 <= last.arg /\ last.arg < Len(records))
          /\ (last.ret => currentIndex = last.arg))
  /\ []((last.op = "getNextRecord" /\ prev.op = "jumpToRecord" /\ prev.ret) =>
          /\ last.ret # Null
          /\ last.ret.record_number = prev.arg + 1
          /\ last.ret.record = records[prev.arg + 1]
          /\ last.ret.record.id = prev.arg + 1)
  /\ [][(IsCallOf("jumpToRecord") /\ ~last'.ret) =>
          currentIndex' = currentIndex]_vars

\* A jump to the last record of a full dataset has been followed at once by
\* the getNextRecord that returns it.
C6_Witness ==
  /\ Len(records) = MaxLines
  /\ last.op = "getNextRecord"
  /\ prev.op = "jumpToRecord"
  /\ prev.ret
  /\ prev.arg = MaxLines - 1
  /\ last.ret # Null

(***************************************************************************)
(* C7.  resetToStart sets the cursor to 0 and changes neither the records  *)
(* (nor their number), nor the source identifier, nor the                  *)
(* ProcessingResults; on a dataset that is not empty a getNextRecord that  *)
(* follows at once returns the first record with record_number 1.          *)
(***************************************************************************)
C7_ResetToStart ==
  /\ [][IsCallOf("resetToStart") =>
          /\ currentIndex' = 0
          /\ Len(records') = Len(records)
          /\ UNCHANGED <<records, currentDataset, processingResults>>]_vars
  /\ []((last.op = "getNextRecord" /\ prev.op = "resetToStart" /\ records # <<>>) =>
          /\ last.ret # Null
          /\ last.ret.record_number = 1
          /\ last.ret.record = records[1]
          /\ last.ret.record.id = 1)

\* The first record has been returned again at once after a resetToStart,
\* on an engine that holds a result for a later record.
C7_Witness ==
  /\ last.op = "getNextRecord"
  /\ prev.op = "resetToStart"
  /\ last.ret # Null
  /\ \E i \in 1..Len(processingResults) : processingResults[i].record_index >= 1

(***************************************************************************)
(* C8.  Every saveResult appends one entry, with the text passed to it, to *)
(* the end of the ProcessingResults and leaves the earlier entries as they *)
(* are; the array a returned exportResults has written parses to as many   *)
(* entries as saveResult was called since the last successful load, in     *)
(* call order, each with the text of its call.                             *)
(***************************************************************************)
C8_ResultsAccumulate ==
  /\ [][IsCallOf("saveResult") =>
          /\ Len(processingResults') = Len(processingResults) + 1
          /\ SubSeq(processingResults', 1, Len(processingResults)) = processingResults
          /\ processingResults'[Len(processingResults')].result = last'.arg]_vars
  /\ []([i \in 1..Len(processingResults) |-> processingResults[i].result] = saved)
  /\ [](HasReturned("exportResults") =>
          LET parsed == JSONparseResults(last.ret.value.written)
          IN /\ parsed.ok
             /\ Len(parsed.value) = Len(saved)
             /\ \A i \in 1..Len(saved) : parsed.value[i].result = saved[i]
             /\ parsed.value = processingResults)

\* An export has written the two results that were saved after one fetch.
C8_Witness ==
  /\ HasReturned("exportResults")
  /\ Len(saved) >= 2
  /\ processingResults[1].record_index = processingResults[2].record_index
  /\ processingResults[1].record_index >= 0

(***************************************************************************)
(* C9.  Every entry saveResult appends has for record_index the index of   *)
(* the record getNextRecord returned last before the save, whatever        *)
(* getNextRecord, resetToStart and jumpToRecord calls came since the load. *)
(* The code stores currentIndex - 1, which is another index once           *)
(* resetToStart or jumpToRecord has moved the cursor.                      *)
(***************************************************************************)
C9_SavedIndexIsLastFetched ==
  (last.op = "saveResult" /\ fetched >= 0) =>
    processingResults[Len(processingResults)].record_index = fetched

(***************************************************************************)
(* C10.  saveResult records a negative record_index exactly when no        *)
(* getNextRecord has returned a record since the last load.  The code      *)
(* stores currentIndex - 1 (see C9): negative after a resetToStart that    *)
(* follows a fetch, not negative after a jumpToRecord without any fetch.   *)
(***************************************************************************)
C10_NegativeIndexIffNothingFetched ==
  last.op = "saveResult" =>
    ((processingResults[Len(processingResults)].record_index < 0) <=> (fetched = -1))

(***************************************************************************)
(* C11.  getProcessingStatus changes no state and reports the cursor as    *)
(* current_record, the number of records as total_records, the number of   *)
(* ProcessingResults as completed and total_records - current_record, never*)
(* negative, as remaining; before any load it reports dataset = null and   *)
(* all four counts zero.  As stated the claim fails: saveResult is accepted*)
(* before any load and makes completed 1.                                  *)
(***************************************************************************)
C11_StatusAllZeroBeforeLoad ==
  last.op = "getProcessingStatus" =>
    /\ last.ret.current_record = currentIndex
    /\ last.ret.total_records = Len(records)
    /\ last.ret.completed = Len(processingResults)
    /\ last.ret.remaining = last.ret.total_records - last.ret.current_record
    /\ last.ret.remaining >= 0
    /\ ~loaded =>
          last.ret = [dataset |-> Null, current_record |-> 0, total_records |-> 0,
                      completed |-> 0, remaining |-> 0]

\* C11 as amended: before any load the status has dataset = null and
\* current_record, total_records and remaining zero, and completed is the
\* number of saveResult calls made so far.
C11_StatusReportsState ==
  /\ [](last.op = "getProcessingStatus" =>
          /\ last.ret.current_record = currentIndex
          /\ last.ret.total_records = Len(records)
          /\ last.ret.completed = Len(processingResults)
          /\ last.ret.remaining = last.ret.total_records - last.ret.current_record
          /\ last.ret.remaining >= 0
          /\ ~loaded =>
                last.ret = [dataset |-> Null, current_record |-> 0,
                            total_records |-> 0, completed |-> Len(saved),
                            remaining |-> 0])
  /\ [][IsCallOf("getProcessingStatus") => UNCHANGED engine]_vars

\* The status has been read in the middle of a dataset that has a result.
C11_Witness ==
  /\ last.op = "getProcessingStatus"
  /\ loaded
  /\ last.ret.total_records = MaxLines
  /\ last.ret.current_record = 2
  /\ last.ret.completed = 1
  /\ last.ret.remaining = MaxLines - 2

(***************************************************************************)
(* C12.  hasMoreRecords changes no state and returns true exactly when the *)
(* cursor is below the number of records, which is exactly when a          *)
(* getNextRecord that follows at once returns a record and not null.       *)
(***************************************************************************)
C12_HasMoreRecords ==
  /\ [](last.op = "hasMoreRecords" =>
          (last.ret <=> currentIndex < Len(records)))
  /\ [][IsCallOf("hasMoreRecords") => UNCHANGED engine]_vars
  /\ []((last.op = "getNextRecord" /\ prev.op = "hasMoreRecords") =>
          (prev.ret <=> last.ret # Null))

\* hasMoreRecords has returned false at the end of a full dataset and the
\* getNextRecord that followed has returned null.
C12_Witness ==
  /\ last.op = "getNextRecord"
  /\ prev.op = "hasMoreRecords"
  /\ ~prev.ret
  /\ last.ret = Null
  /\ Len(records) = MaxLines

(***************************************************************************)
(* C13.  The count a successful load returns is the total_records of the   *)
(* status read right after it.                                             *)
(***************************************************************************)
C13_CountIsTotalRecords ==
  /\ [](LoadReturned => last.ret.value = getProcessingStatus.total_records)
  /\ [][(LoadReturned /\ IsCallOf("getProcessingStatus")) =>
          last'.ret.total_records = last.ret.value]_vars

\* A load of a file of which one line was skipped has returned 2.
C13_Witness ==
  /\ HasReturned("loadDataset")
  /\ Len(last.arg.source) = 3
  /\ last.ret.value = 2
  /\ getProcessingStatus.total_records = 2

(***************************************************************************)
(* C14.  loadDataset succeeds on every readable line-delimited source: the *)
(* call returns also when the stream delivers only lines that are blank or *)
(* do not parse, and throws only without having been delivered a line.     *)
(* The records are then the values of the lines that are not blank and     *)
(* parse as JSON, in file order; blank lines and lines that do not parse   *)
(* are skipped; the count returned is the number of the lines that parsed. *)
(***************************************************************************)
C14_LoadDatasetKeepsParsedLines ==
  /\ \A k \in Suspended("loadDataset") :
        ENABLED loadDatasetReturn(k, <<"{bad}", "  ", "">>)
  /\ HasThrown("loadDataset") => last.arg.source = <<>>
  /\ HasReturned("loadDataset") =>
        LET source == last.arg.source
            parsed == {i \in DOMAIN source : IsRecordLine(source[i])}
        IN /\ source \in FileContents[last.arg.filePath]
           /\ records = LoadedSequence
           /\ \A i \in DOMAIN records : records[i] = recordOf(last.arg.filePath, i)
           /\ Len(records) = Cardinality(parsed)
           /\ last.ret.value = Cardinality(parsed)

\* A load has returned 1 for a file of a blank line, a line that is not JSON
\* and a record.
C14_Witness ==
  /\ HasReturned("loadDataset")
  /\ Len(last.arg.source) = 3
  /\ last.arg.source[1] = "  "
  /\ last.arg.source[2] = "{bad}"
  /\ IsRecordLine(last.arg.source[3])
  /\ last.ret.value = 1
  /\ records = <<recordOf(last.arg.filePath, 1)>>

(***************************************************************************)
(* C15.  exportResults changes no engine state: over its call, its return  *)
(* and its throw the ProcessingResults, the cursor, the records and the    *)
(* source stay as they are; an export that fails throws an error whose     *)
(* message begins "Failed to export results"; an export that follows an    *)
(* export, failed or not, with only saveResult calls in between writes the *)
(* entries of the earlier one followed by the entries saved since.         *)
(***************************************************************************)
C15_ExportChangesNothing ==
  /\ [][(calls' # calls /\ last'.op = "exportResults") => UNCHANGED engine]_vars
  /\ [](HasThrown("exportResults") =>
          \E rest \in {"", ": Error: ENOENT", ": Error: EACCES"} :
             last.ret.message = "Failed to export results" \o rest)
  /\ []((HasReturned("exportResults") /\ prev.op = "exportResults") =>
          LET earlier == JSONparseResults(prev.arg.content)
              later == JSONparseResults(last.ret.value.written)
          IN /\ earlier.ok /\ later.ok
             /\ Len(earlier.value) <= Len(later.value)
             /\ SubSeq(later.value, 1, Len(earlier.value)) = earlier.value
             /\ later.value = processingResults
             /\ \A i \in 1..Len(saved) : later.value[i].result = saved[i])

\* An export has failed with one result, one more result has been saved, and
\* the export that followed has written both.
C15_Witness ==
  /\ HasReturned("exportResults")
  /\ prev.op = "exportResults"
  /\ ~prev.ret.ok
  /\ Len(JSONparseResults(prev.arg.content).value) = 1
  /\ Len(JSONparseResults(last.ret.value.written).value) = 2

(***************************************************************************)
(* C16.  When the query resolves to a value that is not an array,          *)
(* loadJsonDataset throws an error whose message contains "jq expression   *)
(* must return an array" and names the type of the value.  The code throws *)
(* that error inside its try block and the catch block replaces it by      *)
(* "Failed to load JSON dataset": the text is in the cause, not in the     *)
(* message.                                                                *)
(***************************************************************************)
C16_NonArrayNamedInMessage ==
  LET resolved == IF last.arg.jq.ok THEN last.arg.jq ELSE last.arg.fallback
  IN (HasThrown("loadJsonDataset") /\ resolved.ok /\ ~resolved.value.isArray) =>
        \E before \in {"", "Failed to load JSON dataset: ",
                        "Failed to load JSON dataset: Error: "} :
           last.ret.message =
             before \o "jq expression must return an array, got: "
                    \o resolved.value.type

(***************************************************************************)
(* C17.  Every failure inside loadJsonDataset (the query fails, the        *)
(* fallback cannot read or parse the document or does not support the      *)
(* expression, the result is not an array) reaches the caller as one error *)
(* whose message begins "Failed to load JSON dataset" and whose cause is    *)
(* the failure; every failure of loadDataset reaches the caller as an      *)
(* error whose message begins "Failed to load dataset".                    *)
(***************************************************************************)
C17_LoadFailuresAreWrapped ==
  /\ (last.op = "loadJsonDataset" /\ last.ret # Pending) =>
        LET jq == last.arg.jq
            fallback == last.arg.fallback
            notFound == jq.hasCode /\ jq.code = "ENOENT"
            typeError(value) ==
              "jq expression must return an array, got: " \o value.type
            failure ==
              IF jq.ok
                THEN IF jq.value.isArray THEN "" ELSE typeError(jq.value)
              ELSE IF ~notFound THEN jq.message
              ELSE IF ~fallback.ok THEN fallback.message
              ELSE IF fallback.value.isArray THEN "" ELSE typeError(fallback.value)
        IN /\ last.ret.ok <=> failure = ""
           /\ ~last.ret.ok =>
                 /\ last.ret.message = "Failed to load JSON dataset"
                 /\ last.ret.cause = failure
  /\ HasThrown("loadDataset") =>
        /\ last.ret.message =
              "Failed to load dataset" \o " from '" \o last.arg.filePath \o "'"
        /\ last.ret.cause # ""

\* A loadJsonDataset has failed in the fallback, which does not support the
\* expression, on an engine that holds a dataset.
C17_Witness ==
  /\ HasThrown("loadJsonDataset")
  /\ last.arg.jq.code = "ENOENT"
  /\ last.arg.fallback.message = "Unsupported jq expression"
  /\ last.ret.cause = "Unsupported jq expression"
  /\ loaded

(***************************************************************************)
(* C18.  executeJsonQuery evaluates the fallback exactly when jq.run has   *)
(* failed with the code ENOENT (the jq executable is not found); after any *)
(* other failure of jq.run the fallback is not evaluated and the error of  *)
(* jq.run is the one that propagates.                                      *)
(***************************************************************************)
C18_FallbackIffNotFound ==
  (last.op = "loadJsonDataset" /\ last.ret # Pending) =>
    LET jq == last.arg.jq
        notFound == ~jq.ok /\ jq.hasCode /\ jq.code = "ENOENT"
    IN /\ (last.arg.fallback # NotEvaluated) <=> notFound
       /\ (~jq.ok /\ ~notFound) =>
             /\ ~last.ret.ok
             /\ last.ret.cause = jq.message
       /\ (notFound /\ last.ret.ok) => records = last.arg.fallback.value.items

\* jq.run has failed with a code other than ENOENT and the load has thrown
\* without the fallback.
C18_Witness ==
  /\ HasThrown("loadJsonDataset")
  /\ last.arg.jq.hasCode
  /\ last.arg.jq.code = "EACCES"
  /\ last.arg.fallback = NotEvaluated
  /\ last.ret.cause = "spawn jq EACCES"

(***************************************************************************)
(* C19.  The operations on the engine of the server are serialized: while  *)
(* the loadDataset, loadJsonDataset or exportResults call of a handler is  *)
(* suspended, no other request begins to execute against the engine.       *)
(***************************************************************************)
C19_OperationsSerialized == [][calls # <<>> => requests' = requests]_requests

(***************************************************************************)
(* C20.  A load changes the engine in one step: its call, the lines its    *)
(* stream delivers and its failure leave currentDataset, currentIndex,     *)
(* records and processingResults as they are, and its return replaces the  *)
(* four together by the path of the load, 0, all the records the load has  *)
(* read and no results.  The state an operation observes at a suspension   *)
(* point of a load is so the one before the load or the one after it.      *)
(***************************************************************************)
\* The step is a step of a load: its call, a line of its stream, its throw
\* or its return.
IsLoadStep ==
  \/ Len(calls') > Len(calls) /\ calls'[Len(calls')].op \in LoadOps
  \/ Len(calls') = Len(calls) /\ calls' # calls
  \/ Len(calls') < Len(calls) /\ last'.op \in LoadOps

C20_LoadIsAtomic ==
  [][IsLoadStep =>
       \/ /\ Len(calls') < Len(calls)
          /\ last'.ret.ok
          /\ currentDataset' = last'.arg.filePath
          /\ currentIndex' = 0
          /\ records' = LoadedSequence'
          /\ processingResults' = <<>>
       \/ engine' = engine]_vars

\* A load of another file is suspended after a skipped line and a parsed
\* one; getProcessingStatus, called since, has reported the dataset in use,
\* which the engine still holds with its cursor and its result.
C20_Witness ==
  /\ Len(records) = 3
  /\ currentIndex = 2
  /\ processingResults # <<>>
  /\ \E k \in Suspended("loadDataset") :
        /\ calls[k].arg.filePath # currentDataset
        /\ Len(calls[k].arg.source) = 2
        /\ Len(calls[k].arg.newRecords) = 1
  /\ last.op = "getProcessingStatus"
  /\ last.ret.dataset = currentDataset
  /\ last.ret.total_records = 3

(***************************************************************************)
(* C21.  The content one exportResults call writes is one complete JSON    *)
(* array equal to processingResults as it was when exportResults was       *)
(* called: the content is fixed at the call, no step of another operation  *)
(* changes the content of a suspended call, and the write that succeeds    *)
(* has written that content, also when saveResult or a load has run        *)
(* while the write was pending.                                            *)
(***************************************************************************)
\* The step is the call of an async method op.
IsIssueOf(op) == Len(calls') > Len(calls) /\ calls'[Len(calls')].op = op

C21_ExportWritesResultsAtCall ==
  [][/\ IsIssueOf("exportResults") =>
          LET parsed == JSONparseResults(calls'[Len(calls')].arg.content)
          IN parsed.ok /\ parsed.value = processingResults
     /\ \A k \in 1..Len(calls') :
          (calls'[k].op = "exportResults" /\ ~(k = Len(calls') /\ IsIssueOf("exportResults")))
            => \E j \in Suspended("exportResults") : calls'[k] = calls[j]
     /\ (Len(calls') < Len(calls) /\ last'.op = "exportResults" /\ last'.ret.ok) =>
          \E k \in Suspended("exportResults") :
            /\ calls' = Remove(calls, k)
            /\ last'.arg = calls[k].arg
            /\ last'.ret.value.written = calls[k].arg.content]_vars

\* An export has written the one result there was when it was called, and
\* while its write was pending a saveResult has added a second result or a
\* load has cleared the results.
C21_Witness ==
  /\ HasReturned("exportResults")
  /\ Len(JSONparseResults(last.ret.value.written).value) = 1
  /\ Len(processingResults) # 1

(***************************************************************************)
(* C22.  applySimpleExpression evaluates the pieces of the expression that *)
(* are not empty once trimmed: it resolves the first as a path against the *)
(* document and applies the others as stages from left to right, each to   *)
(* the result of the one before; it returns the result of the last, or     *)
(* throws what the first failing one throws.  For the document             *)
(* {"users":[{"id":1,"active":true},{"id":2,"active":false}]} the          *)
(* expression .users | map(select(.active == true)) yields                 *)
(* [{"id":1,"active":true}], and the path . yields the whole document.     *)
(***************************************************************************)
\* The pieces of the expression that are left once they are trimmed and the
\* empty ones dropped.
StagesOf(pieces) ==
  SelectSeq([i \in 1..Len(pieces) |-> trimChars(pieces[i])],
            LAMBDA piece : piece # <<>>)

\* What step i of an evaluation results in.
ResultOfStep(steps, i) ==
  IF i = 1 THEN resolveJsonPath(steps[1].input, steps[1].text)
  ELSE applyPipelineStage(steps[i].input, steps[i].text)

C22_EvaluateThreadsStages ==
  evaluation.fn = "applySimpleExpression" =>
    LET stages == StagesOf(evaluation.pieces)
        steps == evaluation.steps
    IN /\ (stages # <<>> /\ Head(Head(stages)) = ".") =>
            /\ Len(steps) \in 1..Len(stages)
            /\ steps[1] = [fn |-> "resolveJsonPath", input |-> evaluation.jsonData,
                           text |-> stages[1]]
            /\ \A i \in 2..Len(steps) :
                  /\ ResultOfStep(steps, i - 1).ok
                  /\ steps[i] = [fn |-> "applyPipelineStage",
                                 input |-> ResultOfStep(steps, i - 1).value,
                                 text |-> stages[i]]
            /\ evaluation.ret = ResultOfStep(steps, Len(steps))
            /\ Len(steps) < Len(stages) => ~evaluation.ret.ok
       /\ (/\ evaluation.jsonData = usersDocument
           /\ evaluation.jqExpression =
                 <<".", "u", "s", "e", "r", "s", " ", "|", " ", "m", "a", "p", "(", "s", "e", "l", "e", "c", "t", "(", ".", "a", "c", "t", "i", "v", "e", " ", "=", "=", " ", "t", "r", "u", "e", ")", ")">>
          ) => /\ evaluation.ret.ok
               /\ evaluation.ret.value = JArray(<<usersDocument.members[<<"u", "s", "e", "r", "s">>].items[1]>>)
       /\ evaluation.jqExpression = <<".">> =>
            evaluation.ret = Return(evaluation.jsonData)

\* An expression of a path and two stages: the first stage has dropped
\* elements of the array the path names, and the second has dropped one more
\* of those the first has kept.
C22_Witness ==
  /\ evaluation.fn = "applySimpleExpression"
  /\ Len(evaluation.steps) = 3
  /\ evaluation.ret.ok
  /\ Len(evaluation.steps[2].input.items) > Len(evaluation.steps[3].input.items)
  /\ Len(evaluation.steps[3].input.items) > Len(evaluation.ret.value.items)
  /\ evaluation.ret.value.items # <<>>

(***************************************************************************)
(* C23.  For every array and every condition .<field> == <literal>, the    *)
(* stage map(select(.<field> == <literal>)) returns the elements whose     *)
(* field is strictly equal to the value of the literal, same type and same *)
(* value, in the order they have in the array; an element without the      *)
(* field, or with a value of another type there (the string "1" against    *)
(* the number 1), is dropped.  The field of an element is the member of    *)
(* an object, and the length of an array or of a string.                   *)
(***************************************************************************)
\* The element has the field, with the value.
HasFieldValue(element, field, value) ==
  \/ /\ element.type = "object"
     /\ field \in DOMAIN element.members
     /\ element.members[field].type = value.type
     /\ element.members[field] = value
  \/ /\ element.type = "array"
     /\ field = lengthKey
     /\ value.type = "number"
     /\ value.number = Len(element.items)
  \/ /\ element.type = "string"
     /\ field = lengthKey
     /\ value.type = "number"
     /\ value.number = Len(element.string)

C23_SelectKeepsStrictlyEqual ==
  (evaluation.fn = "applyPipelineStage" /\ evaluation.currentValue.type = "array") =>
    \A c \in EqualityConditions :
      evaluation.stage = selectStage(conditionText(c)) =>
        evaluation.ret =
          Return(JArray(SelectSeq(evaluation.currentValue.items,
                   LAMBDA element : HasFieldValue(element, c.field, c.literal.value))))

\* The stage has kept one of three elements: the one whose f is the number
\* 1, not the one whose f is the string "1" and not the one without f.
C23_Witness ==
  /\ evaluation.fn = "applyPipelineStage"
  /\ evaluation.stage = selectStage(<<".", "f", " ", "=", "=", " ", "1">>)
  /\ evaluation.currentValue.type = "array"
  /\ Len(evaluation.currentValue.items) = 3
  /\ \E i, j \in 1..3 :
        /\ evaluation.currentValue.items[i] = JObject(<<"f">> :> JString(<<"1">>))
        /\ evaluation.currentValue.items[j] = JObject(<<"g">> :> JNumber(1))
  /\ evaluation.ret.ok
  /\ evaluation.ret.value.items = <<JObject(<<"f">> :> JNumber(1))>>

(***************************************************************************)
(* C24.  A segment of a path that is wrapped in double quotes is resolved  *)
(* as the one key between the quotes, whatever the key, a key with a dot   *)
(* or a space included: a path whose segments name, one after the other,   *)
(* keys the document has resolves to the value at those keys, as           *)
(* .a."c.d" does for {"a":{"c.d":v}} and .orders."2024".Q1 for             *)
(* {"orders":{"2024":{"Q1":v}}}.                                           *)
(***************************************************************************)
\* The value of the document at the keys, one object inside the other;
\* undefined if an object on the way does not have the key.
RECURSIVE ValueAt(_, _)
ValueAt(value, keys) ==
  IF keys = <<>> THEN value
  ELSE IF value.type = "object" /\ Head(keys) \in DOMAIN value.members
    THEN ValueAt(value.members[Head(keys)], Tail(keys))
  ELSE JUndefined

\* The segments that name a key with a dot are in double quotes.
DotsAreQuoted(segments) ==
  \A i \in 1..Len(segments) :
    (\E j \in 1..Len(segments[i].key) : segments[i].key[j] = ".")
      => segments[i].quoted

C24_QuotedSegmentIsOneKey ==
  evaluation.fn = "resolveJsonPath" =>
    LET keys == [i \in 1..Len(evaluation.segments) |-> evaluation.segments[i].key]
        value == ValueAt(evaluation.jsonData, keys)
    IN (DotsAreQuoted(evaluation.segments) /\ value # JUndefined) =>
         evaluation.ret = Return(value)

(***************************************************************************)
(* C25.  applySimpleExpression throws "Unsupported jq expression" and      *)
(* calls neither resolveJsonPath nor applyPipelineStage when no piece of   *)
(* the expression is left once the pieces are trimmed and the empty ones   *)
(* dropped (the empty expression, whitespace only, pipes only), and when   *)
(* the first piece left does not start with a dot.                         *)
(***************************************************************************)
C25_UnsupportedExpression ==
  evaluation.fn = "applySimpleExpression" =>
    LET stages == StagesOf(evaluation.pieces)
    IN (stages = <<>> \/ Head(Head(stages)) # ".") =>
         /\ evaluation.ret =
              Throw("Error", "Unsupported jq expression: ", evaluation.jqExpression)
         /\ evaluation.steps = <<>>

\* An expression whose first piece, list, has no dot and is followed by a
\* stage has failed on a document that has the key list.
C25_Witness ==
  /\ evaluation.fn = "applySimpleExpression"
  /\ evaluation.jsonData = nestedDocument
  /\ Len(StagesOf(evaluation.pieces)) = 2
  /\ StagesOf(evaluation.pieces)[1] = <<"l", "i", "s", "t">>
  /\ ~evaluation.ret.ok
  /\ evaluation.steps = <<>>

(***************************************************************************)
(* C26.  resolveJsonPath throws "Path segment ... not found" whenever, at  *)
(* a step of the walk, the segment is not a key of the current value or    *)
(* the current value is null or a scalar, and it returns no value for a    *)
(* key the document does not have: a path resolves to the value the        *)
(* document has at its keys, or throws that error.  (Stated for the paths  *)
(* without a dot in a key, which the split does not break.)                *)
(***************************************************************************)
NoDotInKeys(segments) ==
  \A i \in 1..Len(segments) :
    \A j \in 1..Len(segments[i].key) : segments[i].key[j] # "."

C26_AbsentSegmentNotFound ==
  (evaluation.fn = "resolveJsonPath" /\ NoDotInKeys(evaluation.segments)) =>
    LET keys == [i \in 1..Len(evaluation.segments) |-> evaluation.segments[i].key]
        value == ValueAt(evaluation.jsonData, keys)
    IN IF value = JUndefined
         THEN /\ ~evaluation.ret.ok
              /\ evaluation.ret.name = "Error"
              /\ evaluation.ret.message = "Path segment not found in JSON data"
         ELSE evaluation.ret = Return(value)

(***************************************************************************)
(* C27.  A stage applied to a current value that is not an array throws    *)
(* "map/select stage requires an array input", and every stage text that   *)
(* is not of the form map(select(...)) throws "Unsupported jq stage"; no   *)
(* value is returned in either case.                                       *)
(***************************************************************************)
\* The text has the form map(...), and the form map(select(...)).
IsMap(stage) == startsWith(stage, <<"m", "a", "p", "(">>) /\ endsWith(stage, <<")">>)

IsMapSelect(stage) ==
  /\ IsMap(stage)
  /\ LET inside == trimChars(SubSeq(stage, 5, Len(stage) - 1))
     IN startsWith(inside, <<"s", "e", "l", "e", "c", "t", "(">>) /\ endsWith(inside, <<")">>)

RequiresArray == Throw("Error", "map/select stage requires an array input", <<>>)

UnsupportedStage(stage) == Throw("Error", "Unsupported jq stage: ", stage)

C27_StageFailures ==
  evaluation.fn = "applyPipelineStage" =>
    /\ evaluation.currentValue.type # "array" => evaluation.ret = RequiresArray
    /\ ~IsMapSelect(evaluation.stage) =>
         evaluation.ret = UnsupportedStage(evaluation.stage)

\* C27, amended: a stage of the form map(...) applied to a value that is not
\* an array throws "map/select stage requires an array input", whatever is
\* inside map(...); a text that is not of the form map(...) throws
\* "Unsupported jq stage", whatever the value; and map(...) of something
\* that is not select(...) throws "Unsupported jq stage" when the value is an
\* array.  No value is returned in any of the three cases.
C27_StageFailuresByForm ==
  evaluation.fn = "applyPipelineStage" =>
    /\ (IsMap(evaluation.stage) /\ evaluation.currentValue.type # "array") =>
         evaluation.ret = RequiresArray
    /\ ~IsMap(evaluation.stage) =>
         evaluation.ret = UnsupportedStage(evaluation.stage)
    /\ (/\ IsMap(evaluation.stage)
        /\ ~IsMapSelect(evaluation.stage)
        /\ evaluation.currentValue.type = "array") =>
         evaluation.ret = UnsupportedStage(evaluation.stage)

\* The stage map(.f), which is no map(select(...)), has been applied to an
\* object and has thrown "requires an array input".
C27_Witness ==
  /\ evaluation.fn = "applyPipelineStage"
  /\ evaluation.stage = <<"m", "a", "p", "(", ".", "f", ")">>
  /\ evaluation.currentValue = usersDocument
  /\ evaluation.ret = RequiresArray

(***************************************************************************)
(* C28.  parseLiteral maps the texts true, false and null to the two       *)
(* booleans and null, a text that starts and ends with a double quote to   *)
(* the string of the characters between the two, backslashes included,     *)
(* any other text that is a numeral to its number, and throws              *)
(* "Unsupported literal value" for every other text.                       *)
(***************************************************************************)
\* The text is a decimal numeral: digits, after a sign or not.
Unsigned(text) ==
  IF text # <<>> /\ text[1] \in {"+", "-"} THEN SubSeq(text, 2, Len(text)) ELSE text

IsNumeral(text) ==
  /\ Unsigned(text) # <<>>
  /\ \A i \in 1..Len(Unsigned(text)) : Unsigned(text)[i] \in Digits

\* The number a numeral denotes: the sum of its digits, each times the power
\* of ten of its place.
RECURSIVE PlaceSum(_, _)
PlaceSum(digits, i) ==
  IF i > Len(digits) THEN 0
  ELSE digitValue(digits[i]) * 10 ^ (Len(digits) - i) + PlaceSum(digits, i + 1)

NumeralValue(text) ==
  IF text[1] = "-" THEN 0 - PlaceSum(Unsigned(text), 1)
  ELSE PlaceSum(Unsigned(text), 1)

C28_ParseLiteral ==
  evaluation.fn = "parseLiteral" =>
    LET text == evaluation.rawValue
    IN evaluation.ret =
         CASE text = <<"t", "r", "u", "e">> -> Return(JBoolean(TRUE))
           [] text = <<"f", "a", "l", "s", "e">> -> Return(JBoolean(FALSE))
           [] text = <<"n", "u", "l", "l">> -> Return(JNull)
           [] text[1] = "\"" /\ text[Len(text)] = "\"" ->
                Return(JString([i \in 1..(Len(text) - 2) |-> text[i + 1]]))
           [] text[1] # "\"" /\ IsNumeral(text) -> Return(JNumber(NumeralValue(text)))
           [] OTHER -> Throw("Error", "Unsupported literal value: ", text)

\* The text "a\"b" has been parsed to the string a\"b, backslash kept.
C28_Witness ==
  /\ evaluation.fn = "parseLiteral"
  /\ evaluation.rawValue = <<"\"", "a", "\\", "\"", "b", "\"">>
  /\ evaluation.ret = Return(JString(<<"a", "\\", "\"", "b">>))

(***************************************************************************)
(* C29.  The cursor is a whole number in every reachable state: a jump to  *)
(* a number that is not whole is refused, and getNextRecord never returns  *)
(* a record that is undefined.                                             *)
(***************************************************************************)
C29_CursorIsWhole ==
  /\ currentFraction = 0
  /\ (last.op = "getNextRecord" /\ last.ret # Null) => last.ret.record # Undefined

(***************************************************************************)
(* C30.  Calls of getNextRecord alone exhaust the dataset after exactly    *)
(* total - cursor calls: while records remain, a call returns the record   *)
(* at the cursor and leaves one record less; once none remains, every call *)
(* returns empty and changes nothing.                                      *)
(***************************************************************************)
C30_IterationTerminates ==
  [][IsCallOf("getNextRecord") =>
       LET remaining == Len(records) - currentIndex
       IN /\ remaining >= 0
          /\ currentFraction = 0
          /\ IF remaining > 0
               THEN /\ last'.ret # Null
                    /\ last'.ret.record = records[currentIndex + 1]
                    /\ records' = records
                    /\ Len(records') - currentIndex' = remaining - 1
                    /\ currentFraction' = 0
               ELSE /\ last'.ret = Null
                    /\ UNCHANGED engine]_vars

(***************************************************************************)
(* C31.  records and currentDataset change only in the step in which a     *)
(* load returns: every other step (getNextRecord, saveResult,              *)
(* resetToStart, jumpToRecord, getProcessingStatus, hasMoreRecords, the    *)
(* steps of exportResults, the call and the failure of a load) leaves both *)
(* as they are.  getNextRecord, resetToStart and jumpToRecord leave        *)
(* processingResults as it is, and saveResult leaves the cursor as it is.  *)
(***************************************************************************)
\* The step is the return of a load.
IsLoadReturn ==
  Len(calls') < Len(calls) /\ last'.op \in LoadOps /\ last'.ret.ok

C31_OnlyLoadChangesDataset ==
  [][/\ IsLoadReturn \/ (records' = records /\ currentDataset' = currentDataset)
     /\ (\E op \in {"getNextRecord", "resetToStart", "jumpToRecord"} : IsCallOf(op))
          => processingResults' = processingResults
     /\ IsCallOf("saveResult")
          => currentIndex' = currentIndex /\ currentFraction' = currentFraction]_vars

\* A result has been saved after two of the three records of a.jsonl were
\* fetched: the cursor is still 2 and the three records are still there.
C31_Witness ==
  /\ last.op = "saveResult"
  /\ fetched = 1
  /\ currentIndex = 2
  /\ Len(records) = 3
  /\ records[3] = recordOf("a.jsonl", 3)
  /\ Len(processingResults) = 1

(***************************************************************************)
(* C32.  A request that names a tool the server does not define is         *)
(* answered with an error that has the MethodNotFound code and changes     *)
(* nothing in the engine; the error that answers a request for a defined   *)
(* tool whose method has thrown has the InternalError code.                *)
(***************************************************************************)
\* The step handles a request and answers it with an error.
IsErrorResponse ==
  /\ response' # response
  /\ response'.result # Pending
  /\ "code" \in DOMAIN response'.result

C32_UnknownToolIsMethodNotFound ==
  [][IsErrorResponse =>
       IF response'.name \in Tools
         THEN response'.result.code = ErrorCode.InternalError
         ELSE /\ response'.result.code = ErrorCode.MethodNotFound
              /\ engine' = engine]_vars

(***************************************************************************)
(* C33.  In every reachable state every entry of processingResults has a   *)
(* record_index from -1 to the number of records minus one: no result      *)
(* points at or beyond the end of the records the engine holds.            *)
(***************************************************************************)
C33_ResultIndexInDataset ==
  \A i \in 1..Len(processingResults) :
     LET entry == processingResults[i]
     IN /\ -1 <= entry.record_index
        /\ IF "record_fraction" \in DOMAIN entry
             THEN entry.record_index + 1 <= Len(records) - 1
             ELSE entry.record_index <= Len(records) - 1

(***************************************************************************)
(* C34.  When two loads overlap and both return, the engine holds the      *)
(* records and the path of the load that was requested last, with cursor 0 *)
(* and no results: a load that returns right after a load requested later  *)
(* than itself has returned leaves what that later load has loaded.        *)
(***************************************************************************)
\* The call issued last is a load that has returned, and the step is the
\* return of a load that was requested before it.
IsReturnOfOvertakenLoad ==
  /\ last.op \in LoadOps
  /\ last.ret # Pending
  /\ last.ret.ok
  /\ IsLoadReturn
  /\ last'.arg.request < last.arg.request

C34_LastRequestedLoadWins ==
  [][IsReturnOfOvertakenLoad =>
       /\ currentDataset' = last.arg.filePath
       /\ records' = records
       /\ currentIndex' = 0
       /\ processingResults' = <<>>]_vars

(***************************************************************************)
(* C35.  A result saveResult has appended stays in processingResults until *)
(* a load that was requested after the saveResult call returns: results    *)
(* are dropped only in the return of a load, and the return of a load that *)
(* was requested before the saveResult call keeps the result.              *)
(***************************************************************************)
\* The results after the step begin with the results before it.
ResultsKept ==
  /\ Len(processingResults') >= Len(processingResults)
  /\ SubSeq(processingResults', 1, Len(processingResults)) = processingResults

C35_ResultOutlivesEarlierLoad ==
  [][/\ ResultsKept \/ IsLoadReturn
     /\ (last.op = "saveResult" /\ IsLoadReturn) => ResultsKept]_processingResults

(***************************************************************************)
(* C36.  The number the export_results tool reports in "Successfully       *)
(* exported N results" is the number of entries the call has written to    *)
(* the destination, whatever save_result and load calls have run while the *)
(* write was pending.                                                      *)
(***************************************************************************)
\* The step is the return of exportResults.
IsExportReturn ==
  Len(calls') < Len(calls) /\ last'.op = "exportResults" /\ last'.ret.ok

C36_ExportReportsWrittenCount ==
  [][IsExportReturn =>
       /\ response'.name = "export_results"
       /\ response'.result.values.completed =
            Len(JSONparseResults(last'.ret.value.written).value)]_vars

(***************************************************************************)
(* C37.  A map(select(C)) stage fails on every array, the empty array      *)
(* included, when C is not of the form .<fieldName> == <literal> or its    *)
(* literal is not supported.                                               *)
(***************************************************************************)
\* The condition of a map(select(...)) stage.
ConditionOf(stage) ==
  LET inside == trimChars(SubSeq(stage, 5, Len(stage) - 1))
  IN trimChars(SubSeq(inside, 8, Len(inside) - 1))

\* The text is a literal of the grammar: true, false, null, a run in double
\* quotes or a numeral.
IsLiteral(text) ==
  \/ text \in {<<"t", "r", "u", "e">>, <<"f", "a", "l", "s", "e">>,
               <<"n", "u", "l", "l">>}
  \/ Len(text) >= 2 /\ text[1] = "\"" /\ text[Len(text)] = "\""
  \/ IsNumeral(text)

\* The text is a dot, a field name of word characters, ==, and a literal,
\* with or without whitespace around the ==.
IsCondition(text) ==
  \E i \in 2..Len(text) : \E j \in (i + 1)..Len(text) : \E k \in (j + 2)..Len(text) :
     /\ text[1] = "."
     /\ \A n \in 2..i : text[n] \in WordChars
     /\ \A n \in (i + 1)..(j - 1) : text[n] \in Whitespace
     /\ text[j] = "=" /\ text[j + 1] = "="
     /\ \A n \in (j + 2)..(k - 1) : text[n] \in Whitespace
     /\ IsLiteral(SubSeq(text, k, Len(text)))

C37_InvalidConditionFails ==
  (/\ evaluation.fn = "applyPipelineStage"
   /\ IsMapSelect(evaluation.stage)
   /\ evaluation.currentValue.type = "array"
   /\ ~IsCondition(ConditionOf(evaluation.stage)))
    => ~evaluation.ret.ok

(***************************************************************************)
(* C38.  For every array and every two stages S and T of the form          *)
(* map(select(.<field> == <literal>)): the result of S is a subsequence of *)
(* the array, in the order of the array; S applied to its own result       *)
(* changes nothing; and S then T gives the same array as T then S.         *)
(***************************************************************************)
\* The elements of a are elements of b, in the order they have in b.
RECURSIVE IsSubsequence(_, _)
IsSubsequence(a, b) ==
  IF a = <<>> THEN TRUE
  ELSE IF b = <<>> THEN FALSE
  ELSE IF Head(a) = Head(b) THEN IsSubsequence(Tail(a), Tail(b))
  ELSE IsSubsequence(a, Tail(b))

C38_SelectStagesAreFilters ==
  evaluation.fn = "applyPipeline" =>
    LET array == evaluation.currentValue
        S == evaluation.pipeline[1]
        T == evaluation.pipeline[2]
        afterS == evaluation.steps[2].input
    IN /\ evaluation.ret.ok
       /\ afterS.type = "array"
       /\ IsSubsequence(afterS.items, array.items)
       /\ evaluation.ret.value.type = "array"
       /\ IsSubsequence(evaluation.ret.value.items, afterS.items)
       /\ S = T => evaluation.ret.value = afterS
       /\ evaluation.ret = applyPipeline(Return(array), <<T, S>>, <<>>).outcome

\* S keeps the first and the last of three elements, which differ, and T,
\* another stage, keeps neither.
C38_Witness ==
  /\ evaluation.fn = "applyPipeline"
  /\ evaluation.pipeline[1] # evaluation.pipeline[2]
  /\ Len(evaluation.currentValue.items) = 3
  /\ evaluation.steps[2].input.items =
       <<evaluation.currentValue.items[1], evaluation.currentValue.items[3]>>
  /\ evaluation.currentValue.items[1] # evaluation.currentValue.items[3]
  /\ evaluation.ret.ok
  /\ evaluation.ret.value.items = <<>>

====
